---- MODULE Spec2Model ----
(***************************************************************************)
(* Verification model of the InvestInstruments synchronisation engine:    *)
(* consensus/target dedup store, retention pruner, MOEX price history     *)
(* loader and potential calculator.                                       *)
(*                                                                         *)
(* Three code bases of the repository are modelled side by side:          *)
(*   df   = GorbunovInvestInstruments/data_forecasts.py, data_prices.py,  *)
(*          potentials.py (SQLite file GorbunovInvestInstruments.db)       *)
(*   main = GorbunovInvestInstruments/main.py (same SQLite file)           *)
(*   ic   = src/invest_core/*.py (its own database)                        *)
(*                                                                         *)
(* Numbers.  A money value is a record [units, nano] standing for         *)
(* units + nano/10^9 (the broker API's MoneyValue); NoMoney stands for    *)
(* Python None / SQL NULL.  Close prices and potentials are integers and  *)
(* exact fractions.  Time is counted in ticks, TicksPerDay ticks a day;   *)
(* one tick is the resolution of the stored ISO timestamps (a second).    *)
(***************************************************************************)
EXTENDS Integers, Sequences, FiniteSets, TLC

VARIABLES
    now,        \* wall clock, in ticks
    cf,         \* df/main table consensus_forecasts (set of rows)
    cfNextId,   \* AUTOINCREMENT counter of consensus_forecasts
    cfHasHash,  \* whether column snapshotHash has been added yet
    icf,        \* ic table consensus_forecasts, PRIMARY KEY (uid, recommendationDate)
    ct,         \* df/main table consensus_targets
    ctNextId,   \* AUTOINCREMENT counter of consensus_targets
    ict,        \* ic table consensus_targets, PRIMARY KEY (uid, recommendationDate, company)
    bars,       \* df/main table moex_history_perspective_shares
    icbars,     \* ic table moex_shares_history, PRIMARY KEY (SECID, TRADEDATE)
    ip,         \* df/main table instrument_potentials, PRIMARY KEY (uid, computedDate)
    sp,         \* ic table shares_potentials, PRIMARY KEY (uid, computedAt)
    lastOp,     \* history: the operation performed by the last step and what it reported
    pass,       \* the multi-instrument sync pass in progress: function, position, counters
    writers,    \* the statement each caller of main.AddConsensusForecasts has reached
    batch,      \* the concurrent batch in progress: semaphore, tasks, results, counters
    job,        \* the daily job: the lock file and the position of each run
    pager,      \* the pagination loop in progress: function, offset, what the upstream holds and reports
    fetch,      \* the HTTP fetch in progress: function, attempts made, sleeps taken, how it ended
    lookup,     \* the consensus pass seen request by request: function, credential, position, requests sent, counters
    sweep,      \* the full-universe price pass in progress
    racers,     \* the racing writers, each inside one Add... call
    tbatch,     \* the list of targets being stored
    dated,      \* rows of a forecast table with recommendationDate as the text stored
    util,       \* the last call of a date utility of moex: its arguments and what it returned
    limiter,    \* the RateLimiter: its bucket, the event loop's clock, the tasks inside acquire, the acquisitions completed at each time
    sched       \* the consensus scheduler: where main stands, stop_flag, the iteration counter, when the first signal came

\* the tables and the clock
storeVars == <<now, cf, cfNextId, cfHasHash, icf, ct, ctNextId, ict, bars, icbars, ip, sp>>
\* the positions of the running functions
procVars == <<pass, writers, batch, job, pager, fetch, lookup, sweep, racers, tbatch, dated, util, limiter, sched>>
vars == <<now, cf, cfNextId, cfHasHash, icf, ct, ctNextId, ict, bars, icbars, ip, sp, lastOp,
          pass, writers, batch, job, pager, fetch, lookup, sweep, racers, tbatch, dated, util, limiter, sched>>

----------------------------------------------------------------------------
(* Bounds of the model *)

MaxNow == 2            \* the clock stops advancing here
MaxConsensusRows == 2  \* rows of df/main consensus_forecasts the model lets accumulate
MaxIcConsensusRows == 2  \* rows of ic consensus_forecasts the model lets accumulate
MaxTargetRows == 3       \* rows of df/main consensus_targets the model lets accumulate
MaxPriceNow == 2         \* where the clock stops in the price-history runs
MaxPotentialNow == 4     \* where the clock stops in the potential runs
MaxPotentialRows == 2    \* rows of a consensus table / of shares_potentials in the potential runs
MaxFingerprintRows == 3  \* rows of consensus_forecasts in the fingerprint runs
MaxWriterRows == 3       \* rows of consensus_forecasts in the concurrent-writer runs
MaxWriterNow == 1        \* the clock of the concurrent-writer runs stops here
MaxConcurrency == 2      \* the largest concurrency handed to a batch
MaxJobNow == 3           \* the clock of the daily-job runs stops here
MaxUpstreamRows == 4     \* rows the upstream holds for one window in the pagination runs
MaxApiAttempts == 4      \* the largest API_MAX_ATTEMPTS configured in the fetch runs
MaxAttemptsSeen == 6     \* attempts of one fetch the model follows
MaxLookupRows == 2       \* rows per table the request-by-request passes let accumulate
MaxLookupNow == 3        \* the clock of the request-by-request passes stops here
MaxSweepNow == 5         \* where the clock stops in the full-universe price passes
MaxRaceNow == 2          \* where the clock stops while two writers race
MaxRaceRows == 2         \* rows of main's consensus_targets in the races
MaxBatchTargets == 2     \* targets in one fetched list
MaxBatchRows == 2        \* rows of consensus_targets of data_forecasts / main in the list runs
MaxAgeNow == 5           \* where the clock stops in the age-pruning runs
MaxAgeRows == 3          \* rows written in the age-pruning runs
MaxStaleNow == 22        \* where the clock stops in the staleness runs: 11 days
MaxStaleRows == 1        \* consensus snapshots stored in the staleness runs
MaxRangeDay == 10        \* the latest day handed to get_date_ranges
MaxStep == 4             \* the largest step handed to get_date_ranges
MaxIterations == 3       \* iterations of the consensus scheduler the model follows
MaxPassUids == 5         \* instruments of perspective_shares in the sync-pass runs
MaxPruneNow == 4         \* where the clock stops in the retention runs
MaxPruneRows == 2        \* rows each of consensus_forecasts and consensus_targets in the retention runs

TicksPerDay == 2       \* ticks (seconds) per calendar day, scaled down













\* the process variables but one
butPass == <<writers, batch, job, pager, fetch, lookup, sweep, racers, tbatch, dated, util, limiter, sched>>
butWriters == <<pass, batch, job, pager, fetch, lookup, sweep, racers, tbatch, dated, util, limiter, sched>>
butBatch == <<pass, writers, job, pager, fetch, lookup, sweep, racers, tbatch, dated, util, limiter, sched>>
butJob == <<pass, writers, batch, pager, fetch, lookup, sweep, racers, tbatch, dated, util, limiter, sched>>
butPager == <<pass, writers, batch, job, fetch, lookup, sweep, racers, tbatch, dated, util, limiter, sched>>
butFetch == <<pass, writers, batch, job, pager, lookup, sweep, racers, tbatch, dated, util, limiter, sched>>
butLookup == <<pass, writers, batch, job, pager, fetch, sweep, racers, tbatch, dated, util, limiter, sched>>
butSweep == <<pass, writers, batch, job, pager, fetch, lookup, racers, tbatch, dated, util, limiter, sched>>
butRacers == <<pass, writers, batch, job, pager, fetch, lookup, sweep, tbatch, dated, util, limiter, sched>>
butTbatch == <<pass, writers, batch, job, pager, fetch, lookup, sweep, racers, dated, util, limiter, sched>>
butDated == <<pass, writers, batch, job, pager, fetch, lookup, sweep, racers, tbatch, util, limiter, sched>>
butUtil == <<pass, writers, batch, job, pager, fetch, lookup, sweep, racers, tbatch, dated, limiter, sched>>
butLimiter == <<pass, writers, batch, job, pager, fetch, lookup, sweep, racers, tbatch, dated, util, sched>>
butSched == <<pass, writers, batch, job, pager, fetch, lookup, sweep, racers, tbatch, dated, util, limiter>>

----------------------------------------------------------------------------
(* Values *)

None == "None"                              \* Python None for a string field
NoMoney == [units |-> -1, nano |-> -1]      \* Python None for a numeric field
NoRow == [id |-> -1]                        \* fetchone() returned None
NoHash == <<>>                              \* snapshotHash IS NULL

Abs(x) == IF x < 0 THEN -x ELSE x

Money(u, n) == [units |-> u, nano |-> n]

DateOf(t) == t \div TicksPerDay            \* calendar day of a timestamp

UIDS == {"U1", "U2"}

\* perspective_shares: uid -> (ticker, secid); the instrument universe is fixed
ShareTicker(u) == IF u = "U1" THEN "SBER" ELSE "GAZP"
ShareSecid(u) == IF u = "U1" THEN "SBER" ELSE "GAZP"

----------------------------------------------------------------------------
(* Normalizer *)

\* Raw API values: a MoneyValue dict, a JSON number, a string, or null.
RawDict(u, n) == [kind |-> "dict", units |-> u, nano |-> n]
RawNum(u)     == [kind |-> "num", units |-> u, nano |-> 0]
RawStr(u, n)  == [kind |-> "str", units |-> u, nano |-> n]
RawNone       == [kind |-> "none", units |-> 0, nano |-> 0]

\* data_forecasts._parse_money / main._parse_money: dict and numbers only
_parse_money(val) ==
    IF val.kind = "dict" THEN Money(val.units, val.nano)
    ELSE IF val.kind = "num" THEN Money(val.units, 0)
    ELSE NoMoney

\* invest_core.normalization.to_number: also parses numeric strings
to_number(val) ==
    IF val.kind = "none" THEN NoMoney
    ELSE IF val.kind = "num" THEN Money(val.units, 0)
    ELSE Money(val.units, val.nano)

\* difference a - b in nano, defined when the whole units differ by at most 1
NanoDiff(a, b) == (a.units - b.units) * 1000000000 + (a.nano - b.nano)

\* |a - b| <= tolNano * 10^-9 for two non-null money values
WithinNano(a, b, tolNano) ==
    IF Abs(a.units - b.units) >= 2 THEN FALSE
    ELSE Abs(NanoDiff(a, b)) <= tolNano

TolMicro == 1000   \* 1e-6 expressed in nano

_num_eq_WideTol(a, b) ==
    IF a = NoMoney \/ b = NoMoney THEN a = NoMoney /\ b = NoMoney
    ELSE Abs(a.units - b.units) <= 5

\* data_forecasts.AddConsensusForecasts._num_eq
_num_eq(a, b) ==
    IF a = NoMoney \/ b = NoMoney THEN a = NoMoney /\ b = NoMoney
    ELSE WithinNano(a, b, TolMicro)

_float_equal_NoneDiffers(a, b) ==
    IF a = NoMoney \/ b = NoMoney THEN FALSE
    ELSE WithinNano(a, b, TolMicro)

\* main._float_equal
_float_equal(a, b) ==
    IF a = NoMoney /\ b = NoMoney THEN TRUE
    ELSE IF a = NoMoney \/ b = NoMoney THEN FALSE
    ELSE WithinNano(a, b, TolMicro)

Fmt8_FiveDecimals(m) ==
    IF m = NoMoney THEN <<>>
    ELSE LET q == (m.nano + 5000) \div 10000
         IN IF q = 100000 THEN <<m.units + 1, 0>> ELSE <<m.units, q>>

\* f"{x:.8f}": the value rounded to 8 decimals (no modelled value ends in a half)
Fmt8(m) ==
    IF m = NoMoney THEN <<>>
    ELSE LET q == (m.nano + 5) \div 10
         IN IF q = 100000000 THEN <<m.units + 1, 0>> ELSE <<m.units, q>>

OrEmpty(s) == IF s = None THEN "" ELSE s       \* (s or "")
OrNone(s) == IF s = "" THEN None ELSE s        \* (s or None)

\* data_forecasts.AddConsensusForecasts._fingerprint: sha256 of the joined
\* canonical parts, modelled by the tuple of parts (no modelled string holds '|')
_fingerprint(ticker, recommendation, currency, pc, minT, maxT) ==
    <<OrEmpty(ticker), OrEmpty(recommendation), OrEmpty(currency),
      Fmt8(pc), Fmt8(minT), Fmt8(maxT)>>

----------------------------------------------------------------------------
(* Latest-row queries *)

UidRows(tbl, u) == {r \in tbl : r.uid = u}

\* "WHERE uid=? ORDER BY recommendationDate DESC LIMIT 1": the ORDER BY names
\* no tiebreak, so any row bearing the greatest date may be the one returned.
LatestRows(tbl, u) ==
    {r \in UidRows(tbl, u) : \A q \in UidRows(tbl, u) : q.recommendationDate <= r.recommendationDate}

LatestOrNone(tbl, u) == IF UidRows(tbl, u) = {} THEN {NoRow} ELSE LatestRows(tbl, u)

----------------------------------------------------------------------------
(* Potentials of the df/main store: helpers used by main.AddConsensusForecasts *)

NoClose == -1                       \* CLOSE IS NULL / prev_close is None
NoRel == [numUnits |-> 0, numNano |-> 0, den |-> 0]    \* pricePotentialRel IS NULL

\* (consensus - prev_close) / prev_close kept as an exact fraction:
\* ((numUnits + numNano/10^9) / den)
RelOf(c, p) == [numUnits |-> c.units - p, numNano |-> c.nano, den |-> p]

\* potentials._get_prev_close / main._get_prev_close: latest non-null CLOSE of a
\* SECID over all boards, ordered by COALESCE(TRADE_SESSION_DATE, TRADEDATE)
PrevCloseChoices(secid) ==
    LET rows == {b \in bars : b.SECID = secid /\ b.CLOSE # NoClose}
        top == {b \in rows : \A q \in rows : q.TRADE_SESSION_DATE <= b.TRADE_SESSION_DATE}
    IN IF rows = {} THEN {NoClose} ELSE {b.CLOSE : b \in top}

PotentialOf_NonNegativeClose(consensus_price, prev_close) ==
    IF consensus_price # NoMoney /\ prev_close # NoClose /\ prev_close >= 0
    THEN RelOf(consensus_price, prev_close) ELSE NoRel

\* "if consensus_price is not None and prev_close is not None and
\*  isfinite(prev_close) and prev_close > 0: potential = ..."
PotentialOf(consensus_price, prev_close) ==
    IF consensus_price # NoMoney /\ prev_close # NoClose /\ prev_close > 0
    THEN RelOf(consensus_price, prev_close) ELSE NoRel

IsStale_ElapsedTime(rec_date, stale_days) ==
    IF now - rec_date > stale_days * TicksPerDay THEN 1 ELSE 0

\* "(now_utc - rd_dt).days > stale_days"
IsStale(rec_date, stale_days) ==
    IF (now - rec_date) \div TicksPerDay > stale_days THEN 1 ELSE 0

\* INSERT OR REPLACE INTO instrument_potentials ... PRIMARY KEY(uid, computedDate)
InsertOrReplacePotential(tbl, row) ==
    {r \in tbl : ~(r.uid = row.uid /\ r.computedDate = row.computedDate)} \cup {row}

PotentialRow(u, prev_close, consensus_price, is_stale) ==
    [uid |-> u, ticker |-> ShareTicker(u), computedDate |-> DateOf(now),
     prevClose |-> prev_close, consensusPrice |-> consensus_price,
     pricePotentialRel |-> PotentialOf(consensus_price, prev_close), isStale |-> is_stale]

RecomputeStaleDays == 10

\* main.RecomputePotentialForUid: c_row is the latest consensus row read, prev_close
\* the close read; writes the row of (uid, today)
RecomputePotentialForUid(u, c_row, prev_close) ==
    InsertOrReplacePotential(ip,
        PotentialRow(u, prev_close, c_row.priceConsensus,
                     IsStale(c_row.recommendationDate, RecomputeStaleDays)))

----------------------------------------------------------------------------
(* Consensus snapshots: inputs *)

\* Upstream "consensus" blocks a fetch can return (GetForecastBy).
ConsensusPrices == {RawDict(100, 0), RawDict(105, 0), RawNone}
FetchedConsensus ==
    [uid : UIDS, ticker : {"SBER"}, recommendation : {"BUY"}, currency : {"RUB"},
     consensus : ConsensusPrices, minTarget : {RawDict(90, 0)}, maxTarget : {RawDict(120, 0)}]

\* the blocks the ic deployment is fed in the consensus runs: priced ones of one uid
FetchedConsensusIc == {c \in FetchedConsensus : c.uid = "U1" /\ c.consensus # RawNone}

\* the six business fields of a stored row or of a parsed fetch
Business(r) == <<r.ticker, r.recommendation, r.currency, r.priceConsensus, r.minTarget, r.maxTarget>>

\* the numeric parser each code base applies to the fetched values
ParseMoney(impl, val) == IF impl = "ic" THEN to_number(val) ELSE _parse_money(val)

\* the fetched block after parsing, as the AddConsensusForecasts of impl sees it
Parsed(c, impl) ==
    [uid |-> c.uid, ticker |-> c.ticker, recommendation |-> c.recommendation,
     currency |-> c.currency, priceConsensus |-> ParseMoney(impl, c.consensus),
     minTarget |-> ParseMoney(impl, c.minTarget), maxTarget |-> ParseMoney(impl, c.maxTarget)]

ConsensusRow(id, p, date, hash) ==
    [id |-> id, uid |-> p.uid, ticker |-> p.ticker, recommendation |-> p.recommendation,
     recommendationDate |-> date, currency |-> p.currency, priceConsensus |-> p.priceConsensus,
     minTarget |-> p.minTarget, maxTarget |-> p.maxTarget, snapshotHash |-> hash]

Op(op, impl, uid, arg, status) ==
    [op |-> op, impl |-> impl, uid |-> uid, arg |-> arg, status |-> status]

----------------------------------------------------------------------------
(* data_forecasts.AddConsensusForecasts *)

\* the one-off migration: add column snapshotHash and fill it for existing rows
WithHashes(tbl) ==
    {[r EXCEPT !.snapshotHash =
         _fingerprint(r.ticker, r.recommendation, r.currency, r.priceConsensus, r.minTarget, r.maxTarget)]
     : r \in tbl}

Migrated(tbl) == IF cfHasHash THEN tbl ELSE WithHashes(tbl)

\* data_forecasts.AddConsensusForecasts._same_record
_same_record(last_row, p) ==
    /\ last_row # NoRow
    /\ OrEmpty(last_row.ticker) = OrEmpty(p.ticker)
    /\ OrNone(last_row.recommendation) = OrNone(p.recommendation)
    /\ OrNone(last_row.currency) = OrNone(p.currency)
    /\ _num_eq(last_row.priceConsensus, p.priceConsensus)
    /\ _num_eq(last_row.minTarget, p.minTarget)
    /\ _num_eq(last_row.maxTarget, p.maxTarget)

AddConsensusForecasts_df(Fetched, maxRows) ==
    \E c \in Fetched :
      LET p == Parsed(c, "df")
          fp == _fingerprint(p.ticker, p.recommendation, p.currency,
                             p.priceConsensus, p.minTarget, p.maxTarget)
          tbl == Migrated(cf)
      IN \E last \in LatestOrNone(tbl, c.uid) :
           /\ cfHasHash' = TRUE
           /\ IF last # NoRow /\ last.snapshotHash # NoHash /\ last.snapshotHash = fp
              THEN /\ cf' = tbl
                   /\ cfNextId' = cfNextId
                   /\ lastOp' = Op("AddConsensusForecasts", "df", c.uid, p, "duplicate")
              ELSE IF _same_record(last, p)
              THEN /\ cf' = tbl
                   /\ cfNextId' = cfNextId
                   /\ lastOp' = Op("AddConsensusForecasts", "df", c.uid, p, "duplicate")
              ELSE /\ cfNextId <= maxRows
                   /\ cf' = tbl \cup {ConsensusRow(cfNextId, p, now, fp)}
                   /\ cfNextId' = cfNextId + 1
                   /\ lastOp' = Op("AddConsensusForecasts", "df", c.uid, p, "inserted")
           /\ UNCHANGED <<now, icf, ct, ctNextId, ict, bars, icbars, ip, sp>>

----------------------------------------------------------------------------
(* main.AddConsensusForecasts *)

SameAsLast_main(last_row, p) ==
    /\ last_row # NoRow
    /\ last_row.uid = p.uid
    /\ last_row.ticker = p.ticker
    /\ last_row.recommendation = p.recommendation
    /\ last_row.currency = p.currency
    /\ _float_equal(last_row.priceConsensus, p.priceConsensus)
    /\ _float_equal(last_row.minTarget, p.minTarget)
    /\ _float_equal(last_row.maxTarget, p.maxTarget)

AddConsensusForecasts_main(Fetched, maxRows) ==
    \E c \in Fetched :
      LET p == Parsed(c, "main")
      IN \E last \in LatestOrNone(cf, c.uid) :
           /\ IF SameAsLast_main(last, p)
              THEN /\ UNCHANGED <<cf, cfNextId, ip>>
                   /\ lastOp' = Op("AddConsensusForecasts", "main", c.uid, p, "duplicate")
              ELSE /\ cfNextId <= maxRows
                   /\ cf' = cf \cup {ConsensusRow(cfNextId, p, now, NoHash)}
                   /\ cfNextId' = cfNextId + 1
                   \* new_inserted: RecomputePotentialForUid(db_path, uid)
                   /\ \E c_row \in LatestRows(cf', c.uid), prev_close \in PrevCloseChoices(ShareSecid(c.uid)) :
                        ip' = RecomputePotentialForUid(c.uid, c_row, prev_close)
                   /\ lastOp' = Op("AddConsensusForecasts", "main", c.uid, p, "inserted")
           /\ UNCHANGED <<now, cfHasHash, icf, ct, ctNextId, ict, bars, icbars, sp>>

----------------------------------------------------------------------------
(* invest_core.forecasts.AddConsensusForecasts, called by FillingConsensusData
   with recommendationDate = today *)

IcRow(p, date) ==
    [uid |-> p.uid, ticker |-> p.ticker, recommendation |-> p.recommendation,
     recommendationDate |-> date, currency |-> p.currency, priceConsensus |-> p.priceConsensus,
     minTarget |-> p.minTarget, maxTarget |-> p.maxTarget]

SameAsLast_ic(row, p) ==
    /\ row # NoRow
    /\ row.uid = p.uid
    /\ Business(row) = Business(p)

AddConsensusForecasts_ic(Fetched, maxRows) ==
    \E c \in Fetched :
      LET p == Parsed(c, "ic")
          today == DateOf(now)
          sameDay == {r \in icf : r.uid = c.uid /\ r.recommendationDate = today}
      IN \E row \in LatestOrNone(icf, c.uid) :
           /\ IF SameAsLast_ic(row, p)
              THEN /\ icf' = icf
                   /\ lastOp' = Op("AddConsensusForecasts", "ic", c.uid, p, "duplicate")
              ELSE IF sameDay = {}
              THEN /\ Cardinality(icf) < maxRows
                   /\ icf' = icf \cup {IcRow(p, today)}
                   /\ lastOp' = Op("AddConsensusForecasts", "ic", c.uid, p, "inserted")
              \* UNIQUE violation on (uid, recommendationDate): compare with that day's row
              ELSE IF \E row2 \in sameDay : Business(row2) = Business(p)
              THEN /\ icf' = icf
                   /\ lastOp' = Op("AddConsensusForecasts", "ic", c.uid, p, "duplicate")
              ELSE /\ icf' = (icf \ sameDay) \cup {IcRow(p, today)}
                   /\ lastOp' = Op("AddConsensusForecasts", "ic", c.uid, p, "inserted")
           /\ UNCHANGED <<now, cf, cfNextId, cfHasHash, ct, ctNextId, ict, bars, icbars, ip, sp>>

----------------------------------------------------------------------------
(* The clock *)

Tick(maxNow) ==
    /\ now < maxNow
    /\ now' = now + 1
    /\ lastOp' = Op("Tick", "clock", "", NoRow, "")
    /\ UNCHANGED <<cf, cfNextId, cfHasHash, icf, ct, ctNextId, ict, bars, icbars, ip, sp>>

----------------------------------------------------------------------------
(* Initial state: the tables as CreateTables / migrate_schema / init_schema
   leave them, empty *)

\* the tasks that share one RateLimiter
Tasks == {"task1", "task2"}
MaxLimiterTime == 6      \* where the event loop's clock stops in the rate-limiter runs

\* no RateLimiter has been constructed
LimiterIdle ==
    [capacity |-> 0, tokens |-> 0, updated |-> 0, time |-> 0,
     tasks |-> [t \in Tasks |-> [stage |-> "idle", wake_at |-> 0]],
     acquired |-> [i \in 0 .. MaxLimiterTime |-> 0]]

\* consensus_scheduler.main has not been started; stop_flag = False
SchedIdle ==
    [stage |-> "idle", mode |-> "", once |-> FALSE, stop_flag |-> FALSE, iteration |-> 0,
     step |-> "none", signalled |-> [iteration |-> 0, stage |-> "none"]]

\* no date utility of moex has been called
UtilIdle == [fn |-> "", args |-> <<>>, result |-> <<>>]

\* no pass has been started
\* the callers of main.AddConsensusForecasts in the web application: the
\* coroutines of the event loop and the endpoint run in the thread pool
LoopWriters == {"runner", "api_update_batch"}
ThreadWriters == {"api_update"}
Writers == LoopWriters \cup ThreadWriters
WriterIdle == [stage |-> "idle", p |-> NoRow]

\* the instruments of a concurrent batch
BatchUids == {"U1", "U2", "U3"}
BatchIdle ==
    [stage |-> "idle", fn |-> "", concurrency |-> 0, timeout |-> FALSE, sem |-> 0,
     task |-> [u \in BatchUids |-> "none"], results |-> {},
     attempted |-> 0, success |-> 0, empty |-> 0, errors |-> 0]

\* the runs of daily_history_job.run: the scheduled one and the thread started
\* by POST /run/daily-job
JobRuns == {"scheduled", "run_daily_job"}
NoLock == -1                      \* os.path.exists(LOCK_FILE) is False
RunIdle == [stage |-> "idle", acquiredAt |-> NoLock, steps |-> 0]
JobIdle == [lock |-> NoLock, run |-> [r \in JobRuns |-> RunIdle]]

NoTotal == -1                     \* the cursor block reports no TOTAL
PagerIdle == [fn |-> "", stage |-> "idle", start |-> 0, first |-> TRUE, n |-> 0, total |-> NoTotal]

FetchIdle == [fn |-> "", endpoint |-> "", max |-> 0, attempt |-> 0, stage |-> "idle", sleeps |-> <<>>]

\* the instruments of the request-by-request passes
LookupUids == <<"U1", "U2">>
LookupIdle ==
    [fn |-> "", token |-> FALSE, stage |-> "idle", uids |-> <<>>, idx |-> 0, attempt |-> 0,
     requests |-> [u \in {"U1", "U2"} |-> 0], result |-> [u \in {"U1", "U2"} |-> ""],
     stats |-> [updated |-> 0, empty |-> 0, errors |-> 0]]

\* the instruments of the full-universe price pass, as _read_secids sorts them
SweepSecids == <<"GAZP", "SBER">>
SweepIdle ==
    [fn |-> "", stage |-> "idle", horizon_days |-> 0, secids |-> <<>>, idx |-> 0,
     timeout_reached |-> FALSE, per_security |-> [s \in {"GAZP", "SBER"} |-> "none"]]

\* two callers writing the same key at the same time
Racers == {"writer1", "writer2"}
RacerIdle == [fn |-> "", stage |-> "idle", p |-> NoRow, date |-> 0, result |-> ""]

\* no list of targets is being stored
TargetBatchIdle ==
    [fn |-> "", stage |-> "idle", targets |-> <<>>, idx |-> 0,
     counters |-> [inserted |-> 0, updated |-> 0, duplicates |-> 0]]

PassIdle ==
    [fn |-> "", stage |-> "idle", idx |-> 0, threw |-> {}, got |-> {},
     stats |-> [total |-> 0, updated |-> 0, empty |-> 0, errors |-> 0]]

Init ==
    /\ now = 0
    /\ cf = {} /\ cfNextId = 1 /\ cfHasHash = FALSE
    /\ icf = {}
    /\ ct = {} /\ ctNextId = 1
    /\ ict = {}
    /\ bars = {}
    /\ icbars = {}
    /\ ip = {}
    /\ sp = {}
    /\ lastOp = Op("Init", "", "", NoRow, "")
    /\ pass = PassIdle
    /\ writers = [w \in Writers |-> WriterIdle]
    /\ batch = BatchIdle
    /\ job = JobIdle
    /\ pager = PagerIdle
    /\ fetch = FetchIdle
    /\ lookup = LookupIdle
    /\ sweep = SweepIdle
    /\ racers = [w \in Racers |-> RacerIdle]
    /\ tbatch = TargetBatchIdle
    /\ dated = [rows |-> {}, nextId |-> 1]
    /\ util = UtilIdle
    /\ limiter = LimiterIdle
    /\ sched = SchedIdle

\* Consensus store: the three AddConsensusForecasts and the clock
Next ==
    \/ Tick(MaxNow) /\ UNCHANGED procVars
    \/ AddConsensusForecasts_df(FetchedConsensus, MaxConsensusRows) /\ UNCHANGED procVars
    \/ AddConsensusForecasts_main(FetchedConsensus, MaxConsensusRows) /\ UNCHANGED procVars
    \/ AddConsensusForecasts_ic(FetchedConsensusIc, MaxIcConsensusRows) /\ UNCHANGED procVars

Spec == Init /\ [][Next]_vars

----------------------------------------------------------------------------
(* Properties of the consensus store *)

\* the consensus table an implementation works on
ConsensusTable(impl) == IF impl = "ic" THEN icf ELSE cf

\* a stored row without the technical snapshotHash column
Visible(r) == <<r.uid, r.recommendationDate, Business(r),
                IF "id" \in DOMAIN r THEN r.id ELSE 0>>

\* calendar day of a stored recommendationDate (df/main store a timestamp, ic a date)
StampDay(impl, d) == IF impl = "ic" THEN d ELSE DateOf(d)

\* every row the latest-row query may return carries exactly these business fields
LatestIs(tbl, u, b) ==
    /\ LatestRows(tbl, u) # {}
    /\ \A r \in LatestRows(tbl, u) : Business(r) = b

\* the step is a consensus sync of uid u by impl that fetched p
SyncStep(impl, u, p) ==
    /\ lastOp'.op = "AddConsensusForecasts"
    /\ lastOp'.impl = impl /\ lastOp'.uid = u /\ lastOp'.arg = p

SyncArgs == {Parsed(c, impl) : c \in FetchedConsensus, impl \in {"df", "main", "ic"}}
Impls == {"df", "main", "ic"}

PriceMoved(tbl, p) ==
    /\ p.priceConsensus = Money(105, 0)
    /\ LatestIs(tbl, p.uid, Business([p EXCEPT !.priceConsensus = Money(100, 0)]))

\* exactly one row is added to tbl, it carries p and today's stamp, nothing else changes
OneNewRow(impl, tbl, tblAfter, p) ==
    /\ Cardinality(tblAfter) = Cardinality(tbl) + 1
    /\ {Visible(r) : r \in tbl} \subseteq {Visible(r) : r \in tblAfter}
    /\ \E r \in tblAfter :
          /\ Visible(r) \notin {Visible(q) : q \in tbl}
          /\ r.uid = p.uid /\ Business(r) = Business(p)
          /\ StampDay(impl, r.recommendationDate) = DateOf(now)

\* the row of p.uid dated today is overwritten with p, nothing else changes
SameDayOverwrite(tbl, tblAfter, p) ==
    \E old \in tbl :
      /\ old.uid = p.uid /\ old.recommendationDate = DateOf(now)
      /\ tblAfter = (tbl \ {old}) \cup {IcRow(p, DateOf(now))}
      /\ Cardinality(tblAfter) = Cardinality(tbl)

\* C2 as stated: latest price 100, fetched 105, other fields equal: exactly one
\* new row stamped with the current processing date, previous rows unchanged.
C2_Original ==
    [][\A impl \in Impls, p \in SyncArgs :
          (SyncStep(impl, p.uid, p) /\ PriceMoved(ConsensusTable(impl), p))
          => OneNewRow(impl, ConsensusTable(impl), ConsensusTable(impl)', p)]_vars

\* C2 amended: as C2, except that the store keyed by (uid, date) overwrites in
\* place the row it already holds for the current processing date.
C2_OneNewRowOrSameDayOverwrite ==
    [][\A impl \in Impls, p \in SyncArgs :
          (SyncStep(impl, p.uid, p) /\ PriceMoved(ConsensusTable(impl), p))
          => IF impl = "ic" /\ \E r \in icf : r.uid = p.uid /\ r.recommendationDate = DateOf(now)
             THEN SameDayOverwrite(icf, icf', p)
             ELSE OneNewRow(impl, ConsensusTable(impl), ConsensusTable(impl)', p)]_vars

\* C2 witness: a sync that fetched 105 has just inserted a row next to a 100 row
C2_Witness ==
    /\ lastOp.op = "AddConsensusForecasts" /\ lastOp.status = "inserted"
    /\ lastOp.arg.priceConsensus = Money(105, 0)
    /\ \E r, q \in ConsensusTable(lastOp.impl) :
          /\ r.uid = lastOp.uid /\ q.uid = lastOp.uid
          /\ r.priceConsensus = Money(100, 0) /\ q.priceConsensus = Money(105, 0)
          /\ r.recommendationDate <= q.recommendationDate

----------------------------------------------------------------------------
(* Analyst targets: inputs.  The upstream recommendationDate is a timestamp;
   df/main key on it as received, ic keys on its calendar day. *)

TargetCompanies == {"BrokerX", None}
TargetDates == {0, 1, 2}
TargetPrices == {RawDict(100, 0), RawDict(110, 0)}
FetchedTargets ==
    [uid : {"U1"}, ticker : {"SBER"}, company : TargetCompanies, recommendation : {"BUY"},
     recommendationDate : TargetDates, currency : {"RUB"}, targetPrice : TargetPrices,
     showName : {"Broker"}]

\* invest_core.normalization.normalize_date: the first ten characters of a timestamp
normalize_date(d) == DateOf(d)

\* the stored fields of a target as impl parses them
ParsedTarget(t, impl) ==
    [uid |-> t.uid, ticker |-> t.ticker, company |-> t.company,
     recommendation |-> t.recommendation,
     recommendationDate |-> IF impl = "ic" THEN normalize_date(t.recommendationDate)
                            ELSE t.recommendationDate,
     currency |-> t.currency, targetPrice |-> ParseMoney(impl, t.targetPrice),
     showName |-> t.showName]

\* "WHERE uid=? AND company=? AND recommendationDate=?"
TargetKeyRows(tbl, p) ==
    {r \in tbl : r.uid = p.uid /\ r.company = p.company
                 /\ r.recommendationDate = p.recommendationDate}

\* the non-key fields of a stored or parsed target
TargetValues(r) == <<r.ticker, r.recommendation, r.currency, r.targetPrice, r.showName>>

TargetRow(id, p) ==
    [id |-> id, uid |-> p.uid, ticker |-> p.ticker, company |-> p.company,
     recommendation |-> p.recommendation, recommendationDate |-> p.recommendationDate,
     currency |-> p.currency, targetPrice |-> p.targetPrice, showName |-> p.showName]

\* "if not uid or not company or not rdate: continue"
NoTargetDate == -1      \* recommendationDate absent from the fetched target
TargetKeyMissing(p) ==
    p.uid = None \/ p.company = None \/ p.recommendationDate = NoTargetDate

----------------------------------------------------------------------------
(* data_forecasts.AddConsensusTargets, one element of the list:
   INSERT OR IGNORE against the unique index (uid, company, recommendationDate) *)

AddConsensusTargets_df(Fetched, maxRows) ==
    \E t \in Fetched :
      LET p == ParsedTarget(t, "df")
      IN /\ IF TargetKeyMissing(p)
            THEN /\ UNCHANGED <<ct, ctNextId>>
                 /\ lastOp' = Op("AddConsensusTargets", "df", t.uid, p, "skipped")
            ELSE IF TargetKeyRows(ct, p) # {}
            THEN /\ UNCHANGED <<ct, ctNextId>>
                 /\ lastOp' = Op("AddConsensusTargets", "df", t.uid, p, "ignored")
            ELSE /\ ctNextId <= maxRows
                 /\ ct' = ct \cup {TargetRow(ctNextId, p)}
                 /\ ctNextId' = ctNextId + 1
                 /\ lastOp' = Op("AddConsensusTargets", "df", t.uid, p, "inserted")
         /\ UNCHANGED <<now, cf, cfNextId, cfHasHash, icf, ict, bars, icbars, ip, sp>>

----------------------------------------------------------------------------
(* main.AddConsensusTargets, one element of the list: INSERT OR IGNORE, then
   compare recommendation, currency, targetPrice, showName and UPDATE *)

TargetDiffers_main(old, p) ==
    \/ old.recommendation # p.recommendation
    \/ old.currency # p.currency
    \/ (old.targetPrice = NoMoney /\ p.targetPrice # NoMoney)
    \/ (old.targetPrice # NoMoney /\ ~_float_equal(old.targetPrice, p.targetPrice))
    \/ old.showName # p.showName

AddConsensusTargets_main(Fetched, maxRows) ==
    \E t \in Fetched :
      LET p == ParsedTarget(t, "main")
      IN /\ IF TargetKeyMissing(p)
            THEN /\ UNCHANGED <<ct, ctNextId>>
                 /\ lastOp' = Op("AddConsensusTargets", "main", t.uid, p, "skipped")
            ELSE IF TargetKeyRows(ct, p) = {}
            THEN /\ ctNextId <= maxRows
                 /\ ct' = ct \cup {TargetRow(ctNextId, p)}
                 /\ ctNextId' = ctNextId + 1
                 /\ lastOp' = Op("AddConsensusTargets", "main", t.uid, p, "inserted")
            ELSE \E old \in TargetKeyRows(ct, p) :
                   IF TargetDiffers_main(old, p)
                   THEN /\ ct' = (ct \ {old}) \cup {TargetRow(old.id, p)}
                        /\ ctNextId' = ctNextId
                        /\ lastOp' = Op("AddConsensusTargets", "main", t.uid, p, "updated")
                   ELSE /\ UNCHANGED <<ct, ctNextId>>
                        /\ lastOp' = Op("AddConsensusTargets", "main", t.uid, p, "duplicate")
         /\ UNCHANGED <<now, cf, cfNextId, cfHasHash, icf, ict, bars, icbars, ip, sp>>

----------------------------------------------------------------------------
(* invest_core.forecasts.AddConsensusTargets as FillingConsensusData calls it
   (targets lacking uid, company or date are not passed on) *)

IcTargetRow(p) == TargetRow(0, p)

AddConsensusTargets_ic(Fetched) ==
    \E t \in Fetched :
      LET p == ParsedTarget(t, "ic")
      IN /\ IF TargetKeyMissing(p)
            THEN /\ ict' = ict
                 /\ lastOp' = Op("AddConsensusTargets", "ic", t.uid, p, "skipped")
            ELSE IF TargetKeyRows(ict, p) = {}
            THEN /\ ict' = ict \cup {IcTargetRow(p)}
                 /\ lastOp' = Op("AddConsensusTargets", "ic", t.uid, p, "inserted")
            ELSE \E row \in TargetKeyRows(ict, p) :
                   IF TargetValues(row) = TargetValues(p)
                   THEN /\ ict' = ict
                        /\ lastOp' = Op("AddConsensusTargets", "ic", t.uid, p, "duplicate")
                   ELSE /\ ict' = (ict \ {row}) \cup {IcTargetRow(p)}
                        /\ lastOp' = Op("AddConsensusTargets", "ic", t.uid, p, "updated")
         /\ UNCHANGED <<now, cf, cfNextId, cfHasHash, icf, ct, ctNextId, bars, icbars, ip, sp>>

\* Target store: the three AddConsensusTargets
NextTargets ==
    \/ AddConsensusTargets_df(FetchedTargets, MaxTargetRows) /\ UNCHANGED procVars
    \/ AddConsensusTargets_main(FetchedTargets, MaxTargetRows) /\ UNCHANGED procVars
    \/ AddConsensusTargets_ic(FetchedTargets) /\ UNCHANGED procVars

SpecTargets == Init /\ [][NextTargets]_vars

----------------------------------------------------------------------------
(* Properties of the target store *)

TargetTable(impl) == IF impl = "ic" THEN ict ELSE ct

\* C3: after any analyst-target write with key (uid, date, company) the store
\* holds exactly one row with that key and it carries the values of that write.
C3_Original ==
    [][\A impl \in Impls, t \in FetchedTargets :
          LET p == ParsedTarget(t, impl)
          IN (/\ lastOp'.op = "AddConsensusTargets" /\ lastOp'.impl = impl
              /\ lastOp'.arg = p /\ ~TargetKeyMissing(p))
             => /\ Cardinality(TargetKeyRows(TargetTable(impl)', p)) = 1
                /\ \A r \in TargetKeyRows(TargetTable(impl)', p) :
                     TargetValues(r) = TargetValues(p)]_vars

\* C3, uniqueness half alone: no two target rows share (uid, date, company)
C3_KeyUnique ==
    \A impl \in Impls : \A r, q \in TargetTable(impl) :
        (r.uid = q.uid /\ r.company = q.company
         /\ r.recommendationDate = q.recommendationDate) => r = q

----------------------------------------------------------------------------
(* Retention pruner: data_forecasts.PruneHistory and main.PruneHistory *)

\* ORDER BY recommendationDate DESC, id DESC: q sorts before r
Newer_LowestId(q, r) ==
    \/ q.recommendationDate > r.recommendationDate
    \/ (q.recommendationDate = r.recommendationDate /\ q.id < r.id)

Newer(q, r) ==
    \/ q.recommendationDate > r.recommendationDate
    \/ (q.recommendationDate = r.recommendationDate /\ q.id > r.id)

\* "... ORDER BY recommendationDate DESC, id DESC LIMIT n" over the rows of one
\* group; SQLite reads a negative LIMIT as no limit
KeepTop(rows, n) ==
    IF n < 0 THEN rows
    ELSE {r \in rows : Cardinality({q \in rows : Newer(q, r)}) < n}

_is_older_Inclusive(dt, cutoff) == dt <= cutoff

\* _is_older(dt_str, cutoff): "dtv < cutoff" (every modelled date parses)
_is_older(dt, cutoff) == dt < cutoff

\* cutoff = now - timedelta(days=max_age_days)
PruneCutoff(max_age_days) == now - max_age_days * TicksPerDay

\* "WHERE uid=?" for consensus_forecasts, "WHERE uid=? AND company=?" for consensus_targets
SameGroup(q, r) ==
    /\ q.uid = r.uid
    /\ ("company" \in DOMAIN r) => q.company = r.company

\* rows of tbl left by the count phase
AfterCountCap(tbl, n) ==
    {r \in tbl : r \in KeepTop({q \in tbl : SameGroup(q, r)}, n)}

\* rows of tbl left by the age phase; age_on tells whether the phase runs
AfterAge(tbl, age_on, max_age_days) ==
    IF age_on THEN {r \in tbl : ~_is_older(r.recommendationDate, PruneCutoff(max_age_days))}
    ELSE tbl

PruneCaps == {-1, 1, 2}
PruneTargetCaps == {1, 2}
PruneAges == {0, 1}

\* both PruneHistory run the count phase on consensus_forecasts per uid and on
\* consensus_targets per (uid, company), then the age phase when max_age_days > 0
PruneHistory(impl) ==
    \E max_consensus \in PruneCaps, max_targets_per_analyst \in PruneTargetCaps, max_age_days \in PruneAges :
      LET cfCap == AfterCountCap(cf, max_consensus)
          ctCap == AfterCountCap(ct, max_targets_per_analyst)
      IN /\ cf' = AfterAge(cfCap, max_age_days > 0, max_age_days)
         /\ ct' = AfterAge(ctCap, max_age_days > 0, max_age_days)
         \* the four counters the function logs
         /\ lastOp' = Op("PruneHistory", impl, "",
                         [max_consensus |-> max_consensus,
                          max_targets_per_analyst |-> max_targets_per_analyst,
                          max_age_days |-> max_age_days],
                         [deleted_c |-> Cardinality(cf \ cfCap),
                          deleted_t |-> Cardinality(ct \ ctCap),
                          deleted_c_age |-> Cardinality(cfCap \ cf'),
                          deleted_t_age |-> Cardinality(ctCap \ ct')])
         /\ UNCHANGED <<now, cfNextId, cfHasHash, icf, ctNextId, ict, bars, icbars, ip, sp>>

PruneHistory_df == PruneHistory("df")
PruneHistory_main == PruneHistory("main")

\* what the retention runs are fed
PruneConsensus ==
    {c \in FetchedConsensus : c.consensus = RawDict(100, 0)
                               \/ (c.uid = "U1" /\ c.consensus = RawDict(105, 0))}
PruneTargets ==
    {t \in [uid : {"U1"}, ticker : {"SBER"}, company : {"BrokerX", "BrokerY"},
            recommendation : {"BUY"}, recommendationDate : {0, 2}, currency : {"RUB"},
            targetPrice : {RawDict(100, 0)}, showName : {"Broker"}] :
        t.company = "BrokerX" \/ t.recommendationDate = 0}

NextPrune ==
    \/ Tick(MaxPruneNow) /\ UNCHANGED procVars
    \/ AddConsensusForecasts_df(PruneConsensus, MaxPruneRows) /\ UNCHANGED procVars
    \/ AddConsensusTargets_df(PruneTargets, MaxPruneRows) /\ UNCHANGED procVars
    \/ PruneHistory_df /\ UNCHANGED procVars
    \/ PruneHistory_main /\ UNCHANGED procVars

SpecPrune == Init /\ [][NextPrune]_vars

----------------------------------------------------------------------------
(* Properties of the retention pruner *)

PruneArgs == [max_consensus : PruneCaps, max_targets_per_analyst : PruneTargetCaps,
              max_age_days : PruneAges]

PruneStep(a) == lastOp'.op = "PruneHistory" /\ lastOp'.arg = a

\* the groups the caps apply to
ConsensusGroup(tbl, u) == {r \in tbl : r.uid = u}
TargetGroup(tbl, u, co) == {r \in tbl : r.uid = u /\ r.company = co}

\* top is made of the min(n, existing) most recent rows of pre: by date, ties
\* by highest id
IsMostRecent(pre, top, n) ==
    /\ top \subseteq pre
    /\ Cardinality(top) = (IF n <= Cardinality(pre) THEN n ELSE Cardinality(pre))
    /\ \A r \in top, q \in pre \ top :
         \/ r.recommendationDate > q.recommendationDate
         \/ (r.recommendationDate = q.recommendationDate /\ r.id > q.id)

NotAgedOut(top, max_age_days) ==
    IF max_age_days > 0
    THEN {r \in top : r.recommendationDate >= now - max_age_days * TicksPerDay}
    ELSE top

\* post keeps of pre exactly the rows of its min(n, existing) most recent that
\* are not aged out
RetainedAfterPrune(pre, post, n, max_age_days) ==
    \E top \in SUBSET pre :
      /\ IsMostRecent(pre, top, n)
      /\ post = NotAgedOut(top, max_age_days)

KeptByCap(tbl, r, n) ==
    \/ n < 0
    \/ Cardinality({q \in tbl : /\ q.uid = r.uid
                                /\ ("company" \in DOMAIN r) => q.company = r.company
                                /\ \/ q.recommendationDate > r.recommendationDate
                                   \/ (q.recommendationDate = r.recommendationDate
                                       /\ q.id > r.id)}) < n

\* C5: age pruning deletes a row exactly when its date is strictly older than
\* now - threshold: of the rows the count caps keep, those dated before the
\* cutoff are deleted, those dated at or after it are retained.
C5_AgePruneStrictlyOlder ==
    [][\A a \in PruneArgs : (PruneStep(a) /\ a.max_age_days > 0) =>
          LET cutoff == now - a.max_age_days * TicksPerDay
          IN /\ \A r \in cf : KeptByCap(cf, r, a.max_consensus) =>
                   (r \notin cf' <=> r.recommendationDate < cutoff)
             /\ \A r \in ct : KeptByCap(ct, r, a.max_targets_per_analyst) =>
                   (r \notin ct' <=> r.recommendationDate < cutoff)]_vars

\* C5 witness: an age prune has just deleted a target row while the row dated
\* exactly at the cutoff is still there
C5_Witness ==
    /\ lastOp.op = "PruneHistory" /\ lastOp.arg.max_age_days = 1
    /\ lastOp.status.deleted_t_age >= 1
    /\ \E r \in ct : r.recommendationDate = now - TicksPerDay

----------------------------------------------------------------------------
(* MOEX price history: upstream.  ISS serves, for a board and a security, the
   daily bars of the requested range that exist so far, in date order, in
   pages of PageSize rows with the cursor's TOTAL. *)

NoDate == -1                   \* dr_start / dr_end not given, MAX() over no rows
PageSize == 1
DEFAULT_HORIZON_DAYS == 1100

\* the close ISS reports for a security on a trade date (NoClose: null CLOSE)
UpstreamClose(secid, d) ==
    IF secid = "SBER" THEN (IF d = 0 THEN 80 ELSE IF d = 1 THEN 0 ELSE IF d = 2 THEN 40 ELSE NoClose)
    ELSE (IF d = 1 THEN 50 ELSE 100)

\* a row of the payload after _normalize: TRADE_SESSION_DATE defaults to TRADEDATE
_normalize(board, secid, d) ==
    [rowid |-> 0, BOARDID |-> board, SECID |-> secid, TRADEDATE |-> d,
     TRADE_SESSION_DATE |-> d, CLOSE |-> UpstreamClose(secid, d)]

\* all rows ISS holds for the range [from, till] today, in date order
RECURSIVE UpstreamRows(_, _, _, _)
UpstreamRows(board, secid, from, till) ==
    IF from > till \/ from > DateOf(now) THEN <<>>
    ELSE IF from < 0 THEN UpstreamRows(board, secid, 0, till)
    ELSE <<_normalize(board, secid, from)>> \o UpstreamRows(board, secid, from + 1, till)

\* one page: the rows from offset start on
_fetch_page(all, start) == SubSeq(all, start + 1, IF start + PageSize <= Len(all) THEN start + PageSize ELSE Len(all))

BarKeyRows(tbl, board, secid, tradedate) ==
    {r \in tbl : r.BOARDID = board /\ r.SECID = secid /\ r.TRADEDATE = tradedate}

\* SQLite gives a new row of a table without AUTOINCREMENT the rowid max + 1
NextRowid(tbl) ==
    IF tbl = {} THEN 1 ELSE 1 + (CHOOSE m \in {r.rowid : r \in tbl} : \A r \in tbl : r.rowid <= m)

_insert_row_if_new_NoCheck(tbl, values) ==
    tbl \cup {[values EXCEPT !.rowid = NextRowid(tbl)]}

_insert_row_if_new_Replace(tbl, values) ==
    LET rest == tbl \ BarKeyRows(tbl, values.BOARDID, values.SECID, values.TRADEDATE)
    IN rest \cup {[values EXCEPT !.rowid = NextRowid(tbl)]}

\* data_prices._insert_row_if_new: INSERT ... SELECT ... WHERE NOT EXISTS
\* (SELECT 1 ... WHERE BOARDID=? AND SECID=? AND TRADEDATE=?)
_insert_row_if_new(tbl, values) ==
    IF BarKeyRows(tbl, values.BOARDID, values.SECID, values.TRADEDATE) # {} THEN tbl
    ELSE tbl \cup {[values EXCEPT !.rowid = NextRowid(tbl)]}

RECURSIVE InsertRows(_, _)
InsertRows(tbl, rows) ==
    IF rows = <<>> THEN tbl ELSE InsertRows(_insert_row_if_new(tbl, Head(rows)), Tail(rows))

\* the page loop of GetMoexHistory: stop on an empty page or once start_offset
\* has reached the reported TOTAL
RECURSIVE PageLoop(_, _, _)
PageLoop(tbl, all, start_offset) ==
    LET rows == _fetch_page(all, start_offset)
    IN IF rows = <<>> THEN tbl
       ELSE IF start_offset + Len(rows) >= Len(all) THEN InsertRows(tbl, rows)
       ELSE PageLoop(InsertRows(tbl, rows), all, start_offset + Len(rows))

\* SELECT MAX(col) ... of the rows given, NoDate when there is none
MaxDate(dates) ==
    IF dates = {} THEN NoDate ELSE CHOOSE m \in dates : \A d \in dates : d <= m

StartDate_FromLastDay(tbl, board, secid, dr_start) ==
    IF dr_start # NoDate THEN dr_start
    ELSE LET last_ts == MaxDate({r.TRADE_SESSION_DATE : r \in {q \in tbl : q.SECID = secid /\ q.BOARDID = board}})
         IN IF last_ts # NoDate THEN last_ts ELSE DateOf(now) - DEFAULT_HORIZON_DAYS

\* GetMoexHistory: the start of the window
StartDate(tbl, board, secid, dr_start) ==
    IF dr_start # NoDate THEN dr_start
    ELSE LET last_ts == MaxDate({r.TRADE_SESSION_DATE : r \in {q \in tbl : q.SECID = secid /\ q.BOARDID = board}})
         IN IF last_ts # NoDate THEN last_ts + 1 ELSE DateOf(now) - DEFAULT_HORIZON_DAYS

Window_AlwaysRequests(start_date, end_date) ==
    [from |-> start_date, till |-> end_date]

\* the "from" and "till" of the ISS request; no request when the start lies after the end
Window(start_date, end_date) ==
    IF start_date > end_date THEN [from |-> NoDate, till |-> NoDate]
    ELSE [from |-> start_date, till |-> end_date]

Boards == {"TQBR", "TQTF"}
RangeStarts == {NoDate, 0, 1}
RangeEnds == {NoDate, 1}

\* data_prices.GetMoexHistory(board, secid, dr_start, dr_end) with
\* recompute_potentials left at its default False
GetMoexHistory_df(boards, secids, starts, ends) ==
    \E board \in boards, secid \in secids, dr_start \in starts, dr_end \in ends :
      LET end_date == IF dr_end # NoDate THEN dr_end ELSE DateOf(now)
          start_date == StartDate(bars, board, secid, dr_start)
          after == IF start_date > end_date THEN bars
                   ELSE PageLoop(bars, UpstreamRows(board, secid, start_date, end_date), 0)
      IN /\ bars' = after
         /\ lastOp' = Op("GetMoexHistory", "df", secid,
                         [board |-> board, secid |-> secid, dr_start |-> dr_start, dr_end |-> dr_end],
                         [inserted |-> Cardinality(after) - Cardinality(bars),
                          window |-> Window(start_date, end_date)])
         /\ UNCHANGED <<now, cf, cfNextId, cfHasHash, icf, ct, ctNextId, ict, icbars, ip, sp>>

----------------------------------------------------------------------------
(* invest_core.moex_history: GetMoexHistoryByUid for one secid, its rows handed
   to AddMoexHistory (as FillingMoexHistory does) *)

\* GetMoexHistoryByUid: the start of the window; _get_last_tradedate(secid)
\* looks at the rows of the SECID whatever their board
StartDate_ic(secid, dr_start) ==
    LET last == MaxDate({r.TRADEDATE : r \in {q \in icbars : q.SECID = secid}})
    IN IF dr_start # NoDate THEN dr_start
       ELSE IF last # NoDate THEN last + 1
       ELSE DateOf(now) - DEFAULT_HORIZON_DAYS

\* GetMoexHistoryByUid: the rows fetched for one secid ("Skip" when the start
\* lies after dr_end); _fetch_pages reads pages until an empty one
GetMoexHistoryByUid(board, secid, dr_start, dr_end) ==
    LET end_date == IF dr_end # NoDate THEN dr_end ELSE DateOf(now)
        start_date == StartDate_ic(secid, dr_start)
    IN IF start_date > end_date THEN <<>>
       ELSE UpstreamRows(board, secid, start_date, end_date)

\* AddMoexHistory, the loop over rows: a row whose (SECID, TRADEDATE) is stored
\* counts as a duplicate, any other is inserted; res = [tbl, inserted, duplicates]
RECURSIVE AddMoexHistoryRows(_, _)
AddMoexHistoryRows(res, rows) ==
    IF rows = <<>> THEN res
    ELSE LET r == Head(rows)
         IN IF \E q \in res.tbl : q.SECID = r.SECID /\ q.TRADEDATE = r.TRADEDATE
            THEN AddMoexHistoryRows([res EXCEPT !.duplicates = @ + 1], Tail(rows))
            ELSE AddMoexHistoryRows([res EXCEPT !.tbl = @ \cup {r}, !.inserted = @ + 1],
                                    Tail(rows))

AddMoexHistory_ic(boards, secids, starts, ends) ==
    \E board \in boards, secid \in secids, dr_start \in starts, dr_end \in ends :
      LET rows == GetMoexHistoryByUid(board, secid, dr_start, dr_end)
          res == AddMoexHistoryRows([tbl |-> icbars, inserted |-> 0, duplicates |-> 0], rows)
      IN /\ icbars' = res.tbl
         /\ lastOp' = Op("GetMoexHistory", "ic", secid,
                         [board |-> board, secid |-> secid, dr_start |-> dr_start, dr_end |-> dr_end],
                         [inserted |-> res.inserted, duplicates |-> res.duplicates,
                          window |-> Window(StartDate_ic(secid, dr_start),
                                            IF dr_end # NoDate THEN dr_end ELSE DateOf(now))])
         /\ UNCHANGED <<now, cf, cfNextId, cfHasHash, icf, ct, ctNextId, ict, bars, ip, sp>>

NextPrices ==
    \/ Tick(MaxPriceNow) /\ UNCHANGED procVars
    \/ GetMoexHistory_df(Boards, {"SBER"}, RangeStarts, RangeEnds) /\ UNCHANGED procVars
    \/ AddMoexHistory_ic(Boards, {"SBER"}, RangeStarts, RangeEnds) /\ UNCHANGED procVars

SpecPrices == Init /\ [][NextPrices]_vars

----------------------------------------------------------------------------
(* Properties of the price store *)

PriceTable(impl) == IF impl = "ic" THEN icbars ELSE bars

NoDuplicateBars(tbl) ==
    \A r, q \in tbl :
       (r.BOARDID = q.BOARDID /\ r.SECID = q.SECID /\ r.TRADEDATE = q.TRADEDATE) => r = q

\* C6: fetching the same (board, security, date range) a second time with the
\* upstream unchanged inserts nothing (the run reports zero inserted rows), and
\* no two PriceBar rows ever share (board, security, trade date).
C6_RefetchInsertsNothing ==
    [][/\ NoDuplicateBars(bars') /\ NoDuplicateBars(icbars')
       /\ (/\ lastOp.op = "GetMoexHistory" /\ lastOp'.op = "GetMoexHistory"
           /\ lastOp'.impl = lastOp.impl /\ lastOp'.arg = lastOp.arg)
          => /\ lastOp'.status.inserted = 0
             /\ PriceTable(lastOp.impl)' = PriceTable(lastOp.impl)]_vars

\* C6 witness: a fetch over stored bars has just inserted nothing (ic counted
\* every row a duplicate)
C6_Witness ==
    /\ lastOp.op = "GetMoexHistory" /\ lastOp.impl = "ic"
    /\ lastOp.status.inserted = 0 /\ lastOp.status.duplicates >= 2
    /\ Cardinality(bars) >= 2

----------------------------------------------------------------------------
(* potentials.compute_all (df) and main.ComputePotentials *)

POTENTIALS_FORCE_DAILY == FALSE     \* os.getenv("POTENTIALS_FORCE_DAILY", "0")
ComputeStaleDays == 10              \* stale_days: int = 10

\* math.isclose(a, b, abs_tol=1e-9) on two consensus prices: the default
\* rel_tol=1e-9 applies too, |a - b| <= max(1e-9 * max(|a|, |b|), 1e-9)
IsCloseMoney(a, b) ==
    LET big == IF a.units >= b.units THEN a.units ELSE b.units
    IN WithinNano(a, b, IF big >= 1 THEN big ELSE 1)

IsCloseClose_Always(a, b) == TRUE

\* math.isclose on two closes; the modelled closes are whole numbers below 10^9
IsCloseClose(a, b) == a = b

\* "SELECT ... FROM instrument_potentials WHERE uid=? ORDER BY computedDate DESC LIMIT 1"
LastPotential(tbl, u) ==
    LET rows == {r \in tbl : r.uid = u}
    IN IF rows = {} THEN NoRow
       ELSE CHOOSE r \in rows : \A q \in rows : q.computedDate <= r.computedDate

\* compute_all: changed_kind != "none" for uid u
ChangedKindNotNone(last, prev_close, consensus_price) ==
    LET changed_price ==
            IF last.prevClose = NoClose /\ prev_close = NoClose THEN FALSE
            ELSE ~(last.prevClose # NoClose /\ prev_close # NoClose
                   /\ IsCloseClose(last.prevClose, prev_close))
        changed_forecast ==
            IF last.consensusPrice = NoMoney /\ consensus_price = NoMoney THEN FALSE
            ELSE ~(last.consensusPrice # NoMoney /\ consensus_price # NoMoney
                   /\ IsCloseMoney(last.consensusPrice, consensus_price))
    IN changed_price \/ changed_forecast

ConsensusPriceOf(c_row) == IF c_row = NoRow THEN NoMoney ELSE c_row.priceConsensus
StaleOf(c_row, stale_days) ==
    IF c_row = NoRow THEN 0 ELSE IsStale(c_row.recommendationDate, stale_days)

\* compute_all, the body of the loop for one share: the table after it
ComputeOne(tbl, u, c_row, prev_close) ==
    LET last == LastPotential(tbl, u)
        consensus_price == ConsensusPriceOf(c_row)
    IN IF last = NoRow \/ ChangedKindNotNone(last, prev_close, consensus_price)
          \/ POTENTIALS_FORCE_DAILY
       THEN InsertOrReplacePotential(tbl,
                PotentialRow(u, prev_close, consensus_price, StaleOf(c_row, ComputeStaleDays)))
       ELSE tbl

\* main.ComputePotentials, the body of the loop for one share: always writes
ComputeOne_main(tbl, u, c_row, prev_close) ==
    InsertOrReplacePotential(tbl,
        PotentialRow(u, prev_close, ConsensusPriceOf(c_row), StaleOf(c_row, ComputeStaleDays)))

\* potentials.compute_all(store=True): every share of perspective_shares in turn
compute_all ==
    \E c1 \in LatestOrNone(cf, "U1"), c2 \in LatestOrNone(cf, "U2"),
       p1 \in PrevCloseChoices(ShareSecid("U1")), p2 \in PrevCloseChoices(ShareSecid("U2")) :
      /\ ip' = ComputeOne(ComputeOne(ip, "U2", c2, p2), "U1", c1, p1)
      /\ lastOp' = Op("ComputePotentials", "df", "U1",
                      [prevClose |-> p1, consensusPrice |-> ConsensusPriceOf(c1)], "")
      /\ UNCHANGED <<now, cf, cfNextId, cfHasHash, icf, ct, ctNextId, ict, bars, icbars, sp>>

\* main.ComputePotentials(db_path, store=True)
ComputePotentials_main ==
    \E c1 \in LatestOrNone(cf, "U1"), c2 \in LatestOrNone(cf, "U2"),
       p1 \in PrevCloseChoices(ShareSecid("U1")), p2 \in PrevCloseChoices(ShareSecid("U2")) :
      /\ ip' = ComputeOne_main(ComputeOne_main(ip, "U2", c2, p2), "U1", c1, p1)
      /\ lastOp' = Op("ComputePotentials", "main", "U1",
                      [prevClose |-> p1, consensusPrice |-> ConsensusPriceOf(c1)], "")
      /\ UNCHANGED <<now, cf, cfNextId, cfHasHash, icf, ct, ctNextId, ict, bars, icbars, sp>>

----------------------------------------------------------------------------
(* invest_core.potentials.CalculateSharesPotential (ic), table shares_potentials *)

MAX_PRICE == 1000000

\* _valid_price on a stored CLOSE
_valid_price(val) ==
    IF val = NoClose THEN NoClose
    ELSE IF val <= 0 THEN NoClose
    ELSE IF val > MAX_PRICE THEN NoClose
    ELSE val

\* _valid_price on a stored priceConsensus
_valid_price_money(val) ==
    IF val = NoMoney THEN NoMoney
    ELSE IF val.units < 0 \/ (val.units = 0 /\ val.nano <= 0) THEN NoMoney
    ELSE IF val.units > MAX_PRICE \/ (val.units = MAX_PRICE /\ val.nano > 0) THEN NoMoney
    ELSE val

\* GetLastCloseBySecId(secid).get("close"): the row of the latest TRADEDATE, null CLOSE included
GetLastCloseBySecId(secid) ==
    LET rows == {b \in icbars : b.SECID = secid}
    IN IF rows = {} THEN NoClose
       ELSE LET top == CHOOSE b \in rows : \A q \in rows : q.TRADEDATE <= b.TRADEDATE
            IN _valid_price(top.CLOSE)

\* GetLastConsensusByUid(uid).get("priceConsensus"); (uid, recommendationDate) is the key
GetLastConsensusByUid(u) ==
    LET rows == UidRows(icf, u)
    IN IF rows = {} THEN NoMoney
       ELSE LET top == CHOOSE r \in rows :
                           \A q \in rows : q.recommendationDate <= r.recommendationDate
            IN _valid_price_money(top.priceConsensus)

\* computedAt: the tick of the clock and, within a tick, the finer stamp that
\* separates successive calls (milliseconds, microseconds on a key collision)
StampLess(a, b) == a.tick < b.tick \/ (a.tick = b.tick /\ a.seq < b.seq)

\* "SELECT ... FROM shares_potentials WHERE uid = ? ORDER BY computedAt DESC LIMIT 1"
LastSharePotential(tbl, u) ==
    LET rows == {r \in tbl : r.uid = u}
    IN IF rows = {} THEN NoRow
       ELSE CHOOSE r \in rows : \A q \in rows : q = r \/ StampLess(q.computedAt, r.computedAt)

\* "abs(last_rel - rel) < 1e-9" on two exact fractions: cross-multiplied, a
\* difference of a whole unit in the cross product is far above the tolerance
RelUnchanged(x, y) ==
    /\ x.numUnits * y.den = y.numUnits * x.den
    /\ Abs(x.numNano * y.den - y.numNano * x.den) < x.den * y.den

\* "rel = (consensus_price - prev_close) / prev_close if prev_close and consensus_price"
SharePotentialOf(consensus_price, prev_close) ==
    IF prev_close # NoClose /\ prev_close # 0 /\ consensus_price # NoMoney
       /\ ~(consensus_price.units = 0 /\ consensus_price.nano = 0)
    THEN RelOf(consensus_price, prev_close) ELSE NoRel

\* CalculateSharesPotential(secid, uid, ticker, skip_null=False)
CalculateSharesPotential(uids, maxRows) ==
    \E u \in uids :
      LET prev_close == GetLastCloseBySecId(ShareSecid(u))
          consensus_price == GetLastConsensusByUid(u)
          rel == SharePotentialOf(consensus_price, prev_close)
          last_row == LastSharePotential(sp, u)
          unchanged == /\ last_row # NoRow
                       /\ last_row.pricePotentialRel # NoRel
                       /\ rel # NoRel
                       /\ RelUnchanged(last_row.pricePotentialRel, rel)
          now_ts == [tick |-> now,
                     seq |-> Cardinality({r \in sp : r.uid = u /\ r.computedAt.tick = now})]
      IN /\ IF unchanged
            THEN /\ sp' = sp
                 /\ lastOp' = Op("ComputePotentials", "ic", u,
                                 [prevClose |-> prev_close, consensusPrice |-> consensus_price],
                                 "unchanged")
            ELSE /\ Cardinality(sp) < maxRows
                 /\ sp' = sp \cup {[uid |-> u, secid |-> ShareSecid(u), ticker |-> ShareTicker(u),
                                    computedAt |-> now_ts, prevClose |-> prev_close,
                                    consensusPrice |-> consensus_price,
                                    pricePotentialRel |-> rel]}
                 /\ lastOp' = Op("ComputePotentials", "ic", u,
                                 [prevClose |-> prev_close, consensusPrice |-> consensus_price],
                                 "inserted")
         /\ UNCHANGED <<now, cf, cfNextId, cfHasHash, icf, ct, ctNextId, ict, bars, icbars, ip>>

----------------------------------------------------------------------------
(* The potential runs *)

PotentialConsensus ==
    {c \in [uid : {"U1"}, ticker : {"SBER"}, recommendation : {"BUY"}, currency : {"RUB"},
            consensus : {RawDict(100, 0), RawDict(50, 0)},
            minTarget : {RawDict(90, 0)}, maxTarget : {RawDict(120, 0)}] : TRUE}

\* The two code bases are separate deployments, each on its own database file:
\* a potential run drives one of them, the other one's tables stay as created.
LegacyUntouched == cf = {} /\ bars = {} /\ ip = {}
CoreUntouched == icf = {} /\ icbars = {} /\ sp = {}

NextPotentials ==
    \/ Tick(MaxPotentialNow) /\ UNCHANGED procVars
    \/ CoreUntouched /\ AddConsensusForecasts_df(PotentialConsensus, MaxPotentialRows) /\ UNCHANGED procVars
    \/ CoreUntouched /\ GetMoexHistory_df({"TQBR"}, {"SBER"}, {NoDate}, {NoDate}) /\ UNCHANGED procVars
    \/ CoreUntouched /\ compute_all /\ UNCHANGED procVars
    \/ CoreUntouched /\ ComputePotentials_main /\ UNCHANGED procVars
    \/ LegacyUntouched /\ AddConsensusForecasts_ic(PotentialConsensus, MaxPotentialRows) /\ UNCHANGED procVars
    \/ LegacyUntouched /\ AddMoexHistory_ic({"TQBR"}, {"SBER"}, {NoDate}, {NoDate}) /\ UNCHANGED procVars
    \/ LegacyUntouched /\ CalculateSharesPotential({"U1"}, MaxPotentialRows) /\ UNCHANGED procVars

SpecPotentials == Init /\ [][NextPotentials]_vars

----------------------------------------------------------------------------
(* Properties of the potential records *)

PotentialRowsOf(impl, u) ==
    IF impl = "ic" THEN {r \in sp : r.uid = u} ELSE {r \in ip : r.uid = u}

\* the relative potential a record must carry, from the two prices it stores
RelAsStored(r) ==
    IF r.consensusPrice # NoMoney /\ r.prevClose # NoClose /\ r.prevClose > 0
    THEN /\ r.pricePotentialRel.den = r.prevClose
         /\ r.pricePotentialRel.numUnits + r.prevClose = r.consensusPrice.units
         /\ r.pricePotentialRel.numNano = r.consensusPrice.nano
    ELSE r.pricePotentialRel = NoRel

\* C7: every stored PotentialRecord has a null relative potential unless the
\* consensus price and the previous close are both present and the previous
\* close is strictly positive, and then it equals (consensus - prevClose) / prevClose.
C7_RelNullUnlessBothPresent ==
    /\ \A r \in ip : RelAsStored(r)
    /\ \A r \in sp : RelAsStored(r)

\* the two examples of the claim, stored: prevClose 0 with consensus 50 gives
\* null, prevClose 80 with consensus 100 gives 0.25
C7_Witness ==
    /\ \E r \in ip : /\ r.prevClose = 0
                     /\ r.consensusPrice = Money(50, 0)
                     /\ r.pricePotentialRel = NoRel
    /\ \E r \in ip : /\ r.prevClose = 80
                     /\ r.consensusPrice = Money(100, 0)
                     /\ r.pricePotentialRel.numNano = 0
                     /\ r.pricePotentialRel.den # 0
                     /\ 4 * r.pricePotentialRel.numUnits = r.pricePotentialRel.den

\* C8 (as stated): a potential computation that directly follows another one of
\* the same code base, nothing having changed in between, writes nothing.
C8_Original ==
    [][(/\ lastOp.op = "ComputePotentials"
        /\ lastOp'.op = "ComputePotentials"
        /\ lastOp'.impl = lastOp.impl)
       => (ip' = ip /\ sp' = sp)]_vars

\* a computation of impl for U1 that reads a close different from the close of
\* the latest stored record, both present
CloseMoved(impl) ==
    /\ lastOp'.op = "ComputePotentials"
    /\ lastOp'.impl = impl
    /\ lastOp'.uid = "U1"
    /\ lastOp'.arg.prevClose # NoClose
    /\ LET last == IF impl = "ic" THEN LastSharePotential(sp, "U1")
                   ELSE LastPotential(ip, "U1")
       IN /\ last # NoRow
          /\ last.prevClose # NoClose
          /\ last.prevClose # lastOp'.arg.prevClose

Added(impl, n) ==
    Cardinality(PotentialRowsOf(impl, "U1"))' = Cardinality(PotentialRowsOf(impl, "U1")) + n

SameRatio(rel, c, p) ==
    /\ rel # NoRel
    /\ c # NoMoney
    /\ rel.numUnits * p = (c.units - p) * rel.den
    /\ rel.numNano * p = c.nano * rel.den

C10_Original ==
    /\ \A r, q \in ip : (r.uid = q.uid /\ r.computedDate = q.computedDate) => r = q
    /\ \A r, q \in sp :
         (r.uid = q.uid /\ DateOf(r.computedAt.tick) = DateOf(q.computedAt.tick)) => r = q

----------------------------------------------------------------------------
(* Multi-instrument sync pass: data_forecasts.UpdateConsensusForecasts,
   main.UpdateConsensusForecasts, data_forecasts.FillingConsensusData.
   A pass walks the uids of perspective_shares; for each one it runs
   GetConsensusByUid, AddConsensusForecasts, AddConsensusTargets in turn. *)

\* "SELECT uid FROM perspective_shares"
PassUids == SubSeq(<<"U1", "U2", "U3", "U4", "U5", "U6">>, 1, MaxPassUids)

\* what GetConsensusByUid returns for a uid when the API has data
PassConsensus(u) ==
    [uid |-> u, ticker |-> ShareTicker(u), recommendation |-> "BUY", currency |-> "RUB",
     consensus |-> RawDict(100, 0), minTarget |-> RawDict(90, 0), maxTarget |-> RawDict(120, 0)]
PassTargets(u) ==
    [uid |-> u, ticker |-> ShareTicker(u), company |-> "BrokerX", recommendation |-> "BUY",
     recommendationDate |-> 0, currency |-> "RUB", targetPrice |-> RawDict(100, 0),
     showName |-> "Broker"]

\* only data_forecasts.UpdateConsensusForecasts wraps the body of its loop in
\* "try: ... except Exception: stats['errors'] += 1"
CatchesPerInstrument(fn) == fn = "UpdateConsensusForecasts_df"

PassImpl(fn) == IF fn = "UpdateConsensusForecasts_main" THEN "main" ELSE "df"

\* the pass after the body of the loop raised for the current uid
AfterRaise(ps) ==
    IF CatchesPerInstrument(ps.fn)
    THEN [ps EXCEPT !.stats.errors = @ + 1, !.threw = @ \cup {PassUids[ps.idx]},
                    !.idx = @ + 1, !.stage = "fetch"]
    ELSE [ps EXCEPT !.threw = @ \cup {PassUids[ps.idx]}, !.stage = "aborted"]

\* the pass after the body of the loop completed for the current uid
AfterStored(ps) ==
    [ps EXCEPT !.stats.updated = IF CatchesPerInstrument(ps.fn) THEN @ + 1 ELSE @,
               !.idx = @ + 1, !.stage = "fetch"]

\* a pass starts: the uids are read, the counters are zeroed
StartPass ==
    \E fn \in {"UpdateConsensusForecasts_df", "UpdateConsensusForecasts_main",
               "FillingConsensusData_df"} :
      /\ pass.stage = "idle"
      /\ pass' = [PassIdle EXCEPT !.fn = fn, !.stage = "fetch", !.idx = 1,
                                  !.stats.total = Len(PassUids)]
      /\ lastOp' = Op("StartPass", PassImpl(fn), "", NoRow, "")
      /\ UNCHANGED storeVars

\* "c, t = GetConsensusByUid(u, token)": data, nothing (404 / no token), or an exception
PassFetch ==
    \E outcome \in {"data", "empty", "raises"} :
      /\ pass.stage = "fetch"
      /\ pass.idx <= Len(PassUids)
      /\ pass' = IF outcome = "raises" THEN AfterRaise(pass)
                 ELSE IF outcome = "data"
                 THEN [pass EXCEPT !.stage = "consensus", !.got = @ \cup {PassUids[pass.idx]}]
                 \* (None, []): counted as empty by UpdateConsensusForecasts of
                 \* data_forecasts; the other two call both Add functions, which return at once
                 ELSE [pass EXCEPT !.stats.empty = IF CatchesPerInstrument(pass.fn) THEN @ + 1 ELSE @,
                                   !.idx = @ + 1]
      /\ lastOp' = Op("GetConsensusByUid", PassImpl(pass.fn), PassUids[pass.idx], NoRow, outcome)
      /\ UNCHANGED storeVars

\* "AddConsensusForecasts(db_path, c)", or an exception out of it before it wrote
PassStoreConsensus ==
    /\ pass.stage = "consensus"
    /\ \/ /\ IF PassImpl(pass.fn) = "main"
             THEN AddConsensusForecasts_main({PassConsensus(PassUids[pass.idx])}, MaxPassUids)
             ELSE AddConsensusForecasts_df({PassConsensus(PassUids[pass.idx])}, MaxPassUids)
          /\ pass' = [pass EXCEPT !.stage = "targets"]
       \/ /\ pass' = AfterRaise(pass)
          /\ lastOp' = Op("AddConsensusForecasts", PassImpl(pass.fn), PassUids[pass.idx],
                          NoRow, "raises")
          /\ UNCHANGED storeVars

\* "AddConsensusTargets(db_path, t)"
PassStoreTargets ==
    /\ pass.stage = "targets"
    /\ IF PassImpl(pass.fn) = "main"
       THEN AddConsensusTargets_main({PassTargets(PassUids[pass.idx])}, MaxPassUids)
       ELSE AddConsensusTargets_df({PassTargets(PassUids[pass.idx])}, MaxPassUids)
    /\ pass' = AfterStored(pass)

\* after the loop: the two UpdateConsensusForecasts prune, FillingConsensusData returns
PassFinish ==
    /\ pass.stage = "fetch"
    /\ pass.idx > Len(PassUids)
    /\ pass' = [pass EXCEPT !.stage = "done"]
    /\ IF pass.fn = "UpdateConsensusForecasts_df" THEN PruneHistory_df
       ELSE IF pass.fn = "UpdateConsensusForecasts_main" THEN PruneHistory_main
       ELSE /\ lastOp' = Op("FillingConsensusData", "df", "", NoRow, "done")
            /\ UNCHANGED storeVars

NextSync ==
    \/ StartPass /\ UNCHANGED butPass
    \/ PassFetch /\ UNCHANGED butPass
    \/ PassStoreConsensus /\ UNCHANGED butPass
    \/ PassStoreTargets /\ UNCHANGED butPass
    \/ PassFinish /\ UNCHANGED butPass

SpecSync == Init /\ [][NextSync]_vars

----------------------------------------------------------------------------
(* Properties of the sync pass *)

PassEnded == pass.stage \in {"done", "aborted"}

\* the consensus and the target fetched for u are in the tables
StoredFor(u) == (\E r \in cf : r.uid = u) /\ (\E t \in ct : t.uid = u)

\* every instrument whose data arrived and whose processing raised nothing is stored
OthersStored == \A u \in pass.got \ pass.threw : StoredFor(u)

\* the counters the pass logs: one error per raising instrument, one success per stored one
ReportsCounts ==
    /\ pass.stats.errors = Cardinality(pass.threw)
    /\ pass.stats.updated = Cardinality(pass.got \ pass.threw)
    /\ pass.stats.updated + pass.stats.empty + pass.stats.errors = Len(PassUids)

\* C11 (as stated): in a multi-instrument pass an exception raised for one
\* instrument is caught and counted as one error, and every other instrument
\* is still processed and stored; the counters are required of the pass that
\* keeps counters (UpdateConsensusForecasts of data_forecasts).
C11_Original ==
    PassEnded =>
        /\ pass.stage = "done"
        /\ pass.idx = Len(PassUids) + 1
        /\ OthersStored
        /\ CatchesPerInstrument(pass.fn) => ReportsCounts

\* what does hold: the pass of data_forecasts.UpdateConsensusForecasts isolates
\* the failure of one instrument
C11_UpdateOfDataForecastsIsolates ==
    (PassEnded /\ pass.fn = "UpdateConsensusForecasts_df") =>
        /\ pass.stage = "done"
        /\ pass.idx = Len(PassUids) + 1
        /\ OthersStored
        /\ ReportsCounts

\* the example of the claim: five instruments, only the third raises
C11_Example ==
    /\ pass.fn = "UpdateConsensusForecasts_df"
    /\ pass.stage = "done"
    /\ Len(PassUids) >= 5
    /\ pass.threw = {PassUids[3]}
    /\ pass.stats.updated = Len(PassUids) - 1
    /\ pass.stats.errors = 1
    /\ \A i \in 1..Len(PassUids) : i # 3 => StoredFor(PassUids[i])

----------------------------------------------------------------------------
(* Properties of the price-sync window *)

\* a price sync of impl called with neither dr_start nor dr_end
DefaultSyncStep(impl) ==
    /\ lastOp'.op = "GetMoexHistory"
    /\ lastOp'.impl = impl
    /\ lastOp'.arg.dr_start = NoDate
    /\ lastOp'.arg.dr_end = NoDate

\* the trade dates stored for the security on the board, before the step
StoredDates(impl, board, secid) ==
    {r.TRADEDATE : r \in {q \in PriceTable(impl) : q.SECID = secid /\ q.BOARDID = board}}

\* the window the claim describes, or none when its start lies after today
ClaimedWindow(impl, board, secid) ==
    LET dates == StoredDates(impl, board, secid)
        start == IF dates = {} THEN DateOf(now) - DEFAULT_HORIZON_DAYS
                 ELSE 1 + (CHOOSE m \in dates : \A d \in dates : d <= m)
    IN IF start > DateOf(now) THEN [from |-> NoDate, till |-> NoDate]
       ELSE [from |-> start, till |-> DateOf(now)]

\* C12 (as stated): the price sync requests [start, today], start being
\* today - horizon_days when the security has no stored bar for the board and
\* the day after the latest stored trade date when it has.
C12_Original ==
    [][\A impl \in {"df", "ic"} :
         DefaultSyncStep(impl) =>
            lastOp'.status.window = ClaimedWindow(impl, lastOp'.arg.board, lastOp'.arg.secid)]_vars

\* the window over the trade dates stored for the security on any board
WindowOverBoards(secid) ==
    LET dates == {r.TRADEDATE : r \in {q \in icbars : q.SECID = secid}}
        start == IF dates = {} THEN DateOf(now) - DEFAULT_HORIZON_DAYS
                 ELSE 1 + (CHOOSE m \in dates : \A d \in dates : d <= m)
    IN IF start > DateOf(now) THEN [from |-> NoDate, till |-> NoDate]
       ELSE [from |-> start, till |-> DateOf(now)]

\* C12 (amended): data_prices.GetMoexHistory requests [start, today] with start
\* as stated, per (board, security); invest_core takes the latest stored trade
\* date of the security over all boards, and today - 1100 only when the
\* security has no stored bar at all.  No request is made when start lies
\* after today.
C12_WindowPerStore ==
    [][/\ DefaultSyncStep("df") =>
            lastOp'.status.window = ClaimedWindow("df", lastOp'.arg.board, lastOp'.arg.secid)
       /\ DefaultSyncStep("ic") =>
            lastOp'.status.window = WindowOverBoards(lastOp'.arg.secid)]_vars

\* a default sync that found bars up to day 0 has requested [day 1, today]
C12_Witness ==
    /\ lastOp.op = "GetMoexHistory"
    /\ lastOp.impl = "df"
    /\ lastOp.arg.dr_start = NoDate
    /\ lastOp.arg.dr_end = NoDate
    /\ lastOp.status.window = [from |-> 1, till |-> DateOf(now)]
    /\ \E r \in bars : /\ r.BOARDID = lastOp.arg.board
                       /\ r.SECID = lastOp.arg.secid
                       /\ r.TRADEDATE = 0
    /\ \E r \in bars : /\ r.BOARDID = lastOp.arg.board
                       /\ r.SECID = lastOp.arg.secid
                       /\ r.TRADEDATE = 1

\* the start date of the fetch of this step lies after its end date
StartAfterEnd ==
    LET a == lastOp'.arg
        end_date == IF a.dr_end # NoDate THEN a.dr_end ELSE DateOf(now)
        start_date == IF lastOp'.impl = "ic" THEN StartDate_ic(a.secid, a.dr_start)
                      ELSE StartDate(bars, a.board, a.secid, a.dr_start)
    IN /\ lastOp'.op = "GetMoexHistory"
       /\ start_date > end_date

\* C25: if the start date (explicit, or the day after the latest stored trade
\* date) is after the end date, the price fetch sends no upstream request,
\* inserts zero rows, reports 0 and changes no stored bar.
C25_StartAfterEndIsNoOp ==
    [][StartAfterEnd =>
          /\ lastOp'.status.window = [from |-> NoDate, till |-> NoDate]
          /\ lastOp'.status.inserted = 0
          /\ bars' = bars
          /\ icbars' = icbars]_vars

\* a fetch with no explicit start over bars stored up to the end date has done
\* nothing
C25_Witness ==
    /\ lastOp.op = "GetMoexHistory"
    /\ lastOp.impl = "df"
    /\ lastOp.arg.dr_start = NoDate
    /\ lastOp.arg.dr_end = 1
    /\ lastOp.status.window = [from |-> NoDate, till |-> NoDate]
    /\ lastOp.status.inserted = 0
    /\ \E r \in bars : /\ r.BOARDID = lastOp.arg.board
                       /\ r.SECID = lastOp.arg.secid
                       /\ r.TRADEDATE = 1

----------------------------------------------------------------------------
(* The fingerprint fast path of data_forecasts.AddConsensusForecasts against
   its field-by-field comparison *)

\* consensus blocks whose prices differ by less than, and by more than, 1e-6
FingerprintConsensus ==
    [uid : {"U1"}, ticker : {"SBER"}, recommendation : {"BUY", "", None}, currency : {"RUB"},
     consensus : {RawDict(100, 0), RawDict(100, 500), RawDict(100, 2000), RawNone},
     minTarget : {RawDict(90, 0)}, maxTarget : {RawDict(120, 0)}]

NextFingerprint ==
    \/ AddConsensusForecasts_df(FingerprintConsensus, MaxFingerprintRows) /\ UNCHANGED procVars
    \/ Tick(1) /\ UNCHANGED procVars

SpecFingerprint == Init /\ [][NextFingerprint]_vars

\* a step of data_forecasts.AddConsensusForecasts
FingerprintStep ==
    /\ lastOp'.op = "AddConsensusForecasts"
    /\ lastOp'.impl = "df"

\* "row_hash and row_hash[0] and row_hash[0] == fp" for the latest row and the parsed fetch
FastPathUnchanged(last, p) ==
    /\ last # NoRow
    /\ last.snapshotHash # NoHash
    /\ last.snapshotHash = _fingerprint(p.ticker, p.recommendation, p.currency,
                                        p.priceConsensus, p.minTarget, p.maxTarget)

\* C13 (as stated): for the incoming consensus and the latest stored snapshot
\* the fingerprint fast path reports 'unchanged' exactly when the
\* field-by-field comparison does.
C13_Original ==
    [][FingerprintStep =>
         \A last \in LatestOrNone(Migrated(cf), lastOp'.uid) :
            FastPathUnchanged(last, lastOp'.arg) <=> _same_record(last, lastOp'.arg)]_vars

\* C13 (amended): a fingerprint match implies that the field-by-field
\* comparison reports 'unchanged' (not conversely: values 1e-8..1e-6 apart
\* have different fingerprints), and the insert-or-skip decision of the
\* function, which falls back on the field comparison, is that of the field
\* comparison.
C13_FastPathImpliesFields ==
    [][FingerprintStep =>
         /\ \A last \in LatestOrNone(Migrated(cf), lastOp'.uid) :
              FastPathUnchanged(last, lastOp'.arg) => _same_record(last, lastOp'.arg)
         /\ lastOp'.status = "duplicate" =>
              \E last \in LatestOrNone(Migrated(cf), lastOp'.uid) :
                 _same_record(last, lastOp'.arg)
         /\ lastOp'.status = "inserted" =>
              \E last \in LatestOrNone(Migrated(cf), lastOp'.uid) :
                 ~_same_record(last, lastOp'.arg)]_vars

\* a fetch 5e-7 away from the latest row was skipped although the fingerprints differ
C13_Witness ==
    /\ lastOp.op = "AddConsensusForecasts"
    /\ lastOp.impl = "df"
    /\ lastOp.status = "duplicate"
    /\ \E last \in LatestRows(cf, "U1") :
         /\ last.snapshotHash # NoHash
         /\ ~FastPathUnchanged(last, lastOp.arg)
         /\ _same_record(last, lastOp.arg)
         /\ last.priceConsensus # lastOp.arg.priceConsensus

----------------------------------------------------------------------------
(* main.AddConsensusForecasts statement by statement, called by the
   coroutines and the thread-pool endpoints of webapp/app.py on one database *)

\* The statements of a coroutine between two awaits run without another
\* coroutine of the loop in between; a thread-pool thread is not held back.
MayRun(w) ==
    w \in LoopWriters => \A v \in LoopWriters \ {w} : writers[v].stage # "insert"

\* SELECT ... ORDER BY recommendationDate DESC LIMIT 1, fetchone(), the
\* comparison, and the early return when nothing changed
WriterSelect(w, Fetched) ==
    \E c \in Fetched :
      LET p == Parsed(c, "main")
      IN /\ writers[w].stage = "idle"
         /\ MayRun(w)
         /\ \E last \in LatestOrNone(cf, c.uid) :
              IF SameAsLast_main(last, p)
              THEN /\ writers' = [writers EXCEPT ![w] = [stage |-> "returned", p |-> p]]
                   /\ lastOp' = Op("AddConsensusForecasts.select", w, c.uid, p, "duplicate")
              ELSE /\ writers' = [writers EXCEPT ![w] = [stage |-> "insert", p |-> p]]
                   /\ lastOp' = Op("AddConsensusForecasts.select", w, c.uid, p, "changed")
         /\ UNCHANGED storeVars

\* INSERT INTO consensus_forecasts, conn.commit(), RecomputePotentialForUid
WriterInsert(w, maxRows) ==
    LET p == writers[w].p
    IN /\ writers[w].stage = "insert"
       /\ cfNextId <= maxRows
       /\ cf' = cf \cup {ConsensusRow(cfNextId, p, now, NoHash)}
       /\ cfNextId' = cfNextId + 1
       /\ \E c_row \in LatestRows(cf', p.uid), prev_close \in PrevCloseChoices(ShareSecid(p.uid)) :
            ip' = RecomputePotentialForUid(p.uid, c_row, prev_close)
       /\ writers' = [writers EXCEPT ![w] = [stage |-> "returned", p |-> p]]
       /\ lastOp' = Op("AddConsensusForecasts.insert", w, p.uid, p, "inserted")
       /\ UNCHANGED <<now, cfHasHash, icf, ct, ctNextId, ict, bars, icbars, sp>>

\* the caller goes on to its next call
WriterReturn(w) ==
    /\ writers[w].stage = "returned"
    /\ writers' = [writers EXCEPT ![w] = WriterIdle]
    /\ lastOp' = Op("AddConsensusForecasts.return", w, writers[w].p.uid, writers[w].p, "")
    /\ UNCHANGED storeVars

\* what the upstream returns for the one instrument of the concurrent runs
WriterConsensus == {c \in FetchedConsensus : c.uid = "U1"}

NextWriters ==
    \/ \E w \in Writers : WriterSelect(w, WriterConsensus) /\ UNCHANGED butWriters
    \/ \E w \in Writers : WriterInsert(w, MaxWriterRows) /\ UNCHANGED butWriters
    \/ \E w \in Writers : WriterReturn(w) /\ UNCHANGED butWriters
    \/ Tick(MaxWriterNow) /\ UNCHANGED procVars

SpecWriters == Init /\ [][NextWriters]_vars

\* writer w performs its INSERT in this step
Inserts(w) ==
    /\ lastOp'.op = "AddConsensusForecasts.insert"
    /\ lastOp'.impl = w

\* writer v has read the latest row of the uid and has not yet inserted
BetweenSelectAndInsert(v, uid) ==
    /\ writers[v].stage = "insert"
    /\ writers[v].p.uid = uid

\* C14 (as stated): a writer's insert for a uid never falls between another
\* writer's check of the latest row of that uid and that writer's own insert.
C14_Original ==
    [][\A w \in Writers : Inserts(w) =>
          \A v \in Writers \ {w} : ~BetweenSelectAndInsert(v, lastOp'.uid)]_vars

\* supplementary: the two coroutines of the event loop never interleave
C14_LoopWritersSerialised ==
    [][\A w \in LoopWriters : Inserts(w) =>
          \A v \in LoopWriters \ {w} : ~BetweenSelectAndInsert(v, lastOp'.uid)]_vars

\* supplementary: one changed consensus stored twice by interleaved writers
C14_AppendedTwice ==
    /\ now = 0
    /\ \E r, q \in cf :
         /\ r.id # q.id
         /\ r.uid = q.uid
         /\ Business(r) = Business(q)

----------------------------------------------------------------------------
(* The concurrent batches: async_api.FetchConsensusBatch (one task per uid,
   "async with sem") and the tasks of moex.fetch_range (semaphore.acquire(),
   try / finally: semaphore.release()) *)

\* asyncio.Semaphore(max(1, concurrency)) / asyncio.Semaphore(args.max_concurrency)
SemaphoreSize(fn, concurrency) ==
    IF fn = "FetchConsensusBatch" /\ concurrency < 1 THEN 1 ELSE concurrency

MayAcquire_Unbounded(b) == TRUE

\* Semaphore.acquire returns without waiting only while the value is positive
MayAcquire(b) == b.sem > 0

\* the tasks inside the semaphore
Holding(b) == {u \in BatchUids : b.task[u] \in {"fetching", "fetching_cancel"}}

\* the tasks asyncio.wait reports as pending
Pending(b) == {u \in BatchUids : b.task[u] \in {"waiting", "fetching"}}

AfterTimeout_NotCounted(b) ==
    [b EXCEPT !.stage = "returned",
              !.task = [u \in BatchUids |->
                          IF b.task[u] = "waiting" THEN "waiting_cancel"
                          ELSE IF b.task[u] = "fetching" THEN "fetching_cancel"
                          ELSE b.task[u]]]

\* for p in pending: p.cancel(); errors += len(pending); return results, metrics
AfterTimeout(b) ==
    [b EXCEPT !.stage = "returned",
              !.errors = b.errors + Cardinality(Pending(b)),
              !.task = [u \in BatchUids |->
                          IF b.task[u] = "waiting" THEN "waiting_cancel"
                          ELSE IF b.task[u] = "fetching" THEN "fetching_cancel"
                          ELSE b.task[u]]]

\* tasks = [asyncio.create_task(worker(u)) for u in uids]
BatchStart ==
    \E fn \in {"FetchConsensusBatch", "fetch_range"}, concurrency \in 0 .. MaxConcurrency,
       timeout \in BOOLEAN :
      /\ batch.stage = "idle"
      /\ timeout => fn = "FetchConsensusBatch"
      /\ batch' = [BatchIdle EXCEPT !.stage = "running", !.fn = fn,
                                    !.concurrency = concurrency, !.timeout = timeout,
                                    !.sem = SemaphoreSize(fn, concurrency),
                                    !.task = [u \in BatchUids |-> "waiting"]]
      /\ lastOp' = Op("BatchStart", fn, "", NoRow, "")
      /\ UNCHANGED storeVars

\* async with sem: / await semaphore.acquire(); attempted += 1
WorkerAcquire ==
    \E u \in BatchUids :
      /\ batch.task[u] = "waiting"
      /\ MayAcquire(batch)
      /\ batch' = [batch EXCEPT !.sem = @ - 1, !.task[u] = "fetching", !.attempted = @ + 1]
      /\ lastOp' = Op("WorkerAcquire", batch.fn, u, NoRow, "")
      /\ UNCHANGED storeVars

WorkerFinish_EmptyUncounted ==
    \E u \in BatchUids, outcome \in {"data", "empty", "raises"} :
      /\ batch.task[u] = "fetching"
      /\ batch' = [batch EXCEPT !.sem = @ + 1, !.task[u] = "done",
                                !.results = @ \cup {u},
                                !.success = IF outcome = "data" THEN @ + 1 ELSE @,
                                !.errors = IF outcome = "raises" THEN @ + 1 ELSE @]
      /\ lastOp' = Op("WorkerFinish", batch.fn, u, NoRow, outcome)
      /\ UNCHANGED storeVars

\* the fetch completes (with data, with nothing, or by raising) and the
\* worker leaves the semaphore
WorkerFinish ==
    \E u \in BatchUids, outcome \in {"data", "empty", "raises"} :
      /\ batch.task[u] = "fetching"
      /\ batch' = [batch EXCEPT !.sem = @ + 1, !.task[u] = "done",
                                !.results = @ \cup {u},
                                !.success = IF outcome = "data" THEN @ + 1 ELSE @,
                                !.empty = IF outcome = "empty" THEN @ + 1 ELSE @,
                                !.errors = IF outcome = "raises" THEN @ + 1 ELSE @]
      /\ lastOp' = Op("WorkerFinish", batch.fn, u, NoRow, outcome)
      /\ UNCHANGED storeVars

\* CancelledError reaches a cancelled task: __aexit__ of the semaphore / the
\* finally clause releases the slot if the task held one
WorkerCancelled ==
    \E u \in BatchUids :
      /\ batch.task[u] \in {"waiting_cancel", "fetching_cancel"}
      /\ batch' = [batch EXCEPT !.sem = IF batch.task[u] = "fetching_cancel" THEN @ + 1 ELSE @,
                                !.task[u] = "cancelled"]
      /\ lastOp' = Op("WorkerCancelled", batch.fn, u, NoRow, "")
      /\ UNCHANGED storeVars

\* asyncio.wait(tasks, timeout=timeout) returns with tasks still pending
BatchTimeout ==
    /\ batch.stage = "running"
    /\ batch.timeout
    /\ Pending(batch) # {}
    /\ batch' = AfterTimeout(batch)
    /\ lastOp' = Op("BatchTimeout", batch.fn, "", NoRow, "")
    /\ UNCHANGED storeVars

\* asyncio.wait / asyncio.gather return because every task is done
BatchReturn ==
    /\ batch.stage = "running"
    /\ \A u \in BatchUids : batch.task[u] = "done"
    /\ batch' = [batch EXCEPT !.stage = "returned"]
    /\ lastOp' = Op("BatchReturn", batch.fn, "", NoRow, "")
    /\ UNCHANGED storeVars

NextBatch ==
    \/ BatchStart /\ UNCHANGED butBatch
    \/ WorkerAcquire /\ UNCHANGED butBatch
    \/ WorkerFinish /\ UNCHANGED butBatch
    \/ WorkerCancelled /\ UNCHANGED butBatch
    \/ BatchTimeout /\ UNCHANGED butBatch
    \/ BatchReturn /\ UNCHANGED butBatch

SpecBatch == Init /\ [][NextBatch]_vars

\* the timer of asyncio.wait fires and the event loop runs the batch when it
\* can; nothing is assumed about the fetches
SpecBatchTimed ==
    /\ Init
    /\ [][NextBatch]_vars
    /\ WF_vars(BatchTimeout /\ UNCHANGED butBatch)
    /\ WF_vars(BatchReturn /\ UNCHANGED butBatch)

\* C15: at every moment of a concurrent batch the number of fetches in
\* progress is at most the configured concurrency, taken as at least 1, and
\* every slot that is not held has been given back to the semaphore, whether
\* its worker finished, failed or was cancelled.
C15_InProgressBounded ==
    batch.stage # "idle" =>
        /\ Cardinality(Holding(batch)) <= IF batch.concurrency < 1 THEN 1 ELSE batch.concurrency
        /\ batch.sem + Cardinality(Holding(batch)) = SemaphoreSize(batch.fn, batch.concurrency)

\* the pool is full while a task waits, after a worker failed and left
C15_Witness ==
    /\ batch.stage = "running"
    /\ batch.concurrency = 1
    /\ batch.sem = 0
    /\ batch.errors = 1
    /\ \E u, v \in BatchUids : batch.task[u] = "fetching" /\ batch.task[v] = "waiting"

\* supplementary: a cancelled worker has given its slot back
C15_ReleasedOnCancel ==
    /\ batch.stage = "returned"
    /\ \E u \in BatchUids : batch.task[u] = "cancelled"
    /\ Holding(batch) = {}
    /\ batch.sem = SemaphoreSize(batch.fn, batch.concurrency)

\* the step in which the overall timeout ends the batch
TimeoutStep == lastOp'.op = "BatchTimeout"

\* C16: with a positive overall timeout the batch returns even if fetches never
\* complete; at the timeout every task still pending is cancelled and counted
\* as one error, and the results of the completed tasks are returned.
C16_TimeoutReturnsPartial ==
    /\ [][TimeoutStep =>
            /\ batch'.stage = "returned"
            /\ \A u \in Pending(batch) : batch'.task[u] \in {"waiting_cancel", "fetching_cancel"}
            /\ batch'.errors = batch.errors + Cardinality(Pending(batch))
            /\ batch'.results = {u \in BatchUids : batch.task[u] = "done"}
            /\ batch'.results = batch.results]_vars
    /\ (batch.stage = "running" /\ batch.timeout) ~> (batch.stage = "returned")

\* the batch returned on its timeout with one result and two cancelled tasks
C16_Witness ==
    /\ batch.stage = "returned"
    /\ batch.timeout
    /\ lastOp.op = "BatchTimeout"
    /\ Cardinality(batch.results) = 1
    /\ batch.errors = 2
    /\ batch.success = 1

\* C37: on every return from FetchConsensusBatch, with or without a timeout,
\* success + empty + errors equals the number of uids requested and every key
\* of the results is a requested uid.
C37_CountersAddUp ==
    (batch.stage = "returned" /\ batch.fn = "FetchConsensusBatch") =>
        /\ batch.success + batch.empty + batch.errors = Cardinality(BatchUids)
        /\ batch.results \subseteq BatchUids
        /\ Cardinality(batch.results) = batch.success + batch.empty + batch.errors
                                          - Cardinality({u \in BatchUids : batch.task[u] \in
                                               {"waiting_cancel", "fetching_cancel", "cancelled"}})

\* a batch has returned on its timeout with one uid answered, one answered
\* with nothing and one cancelled inside its fetch
C37_Witness ==
    /\ batch.stage = "returned"
    /\ batch.fn = "FetchConsensusBatch"
    /\ batch.timeout
    /\ batch.success = 1 /\ batch.empty = 1 /\ batch.errors = 1
    /\ batch.attempted = 3
    /\ Cardinality(batch.results) = 2

----------------------------------------------------------------------------
(* daily_history_job: _acquire_lock, run, _release_lock; the lock file is
   shared by every run started in the same directory *)

LOCK_MAX_AGE == 2       \* 2 * 3600 seconds, in ticks
PipelineSteps == <<"FillingMoexHistory", "FillingConsensusData", "FillingPotentialData">>

\* if os.path.exists(LOCK_FILE): age_sec = time.time() - getmtime; age_sec < 2 * 3600
LockActive(lock, t) == lock # NoLock /\ t - lock < LOCK_MAX_AGE

\* _acquire_lock up to its return False; run then logs 'Skip: lock active'
JobCheckLock ==
    \E r \in JobRuns :
      /\ job.run[r].stage = "idle"
      /\ IF LockActive(job.lock, now)
         THEN /\ job' = [job EXCEPT !.run[r].stage = "skipped"]
              /\ lastOp' = Op("_acquire_lock", r, "", NoRow, "skip")
         ELSE /\ job' = [job EXCEPT !.run[r].stage = "unlocked"]
              /\ lastOp' = Op("_acquire_lock", r, "", NoRow, "free")
      /\ UNCHANGED storeVars

\* with open(LOCK_FILE, 'w') ...: return True
JobWriteLock ==
    \E r \in JobRuns :
      /\ job.run[r].stage = "unlocked"
      /\ job' = [job EXCEPT !.lock = now,
                            !.run[r] = [stage |-> "running", acquiredAt |-> now, steps |-> 0]]
      /\ lastOp' = Op("_acquire_lock", r, "", NoRow, "acquired")
      /\ UNCHANGED storeVars

\* one step of the pipeline
JobStep ==
    \E r \in JobRuns :
      /\ job.run[r].stage = "running"
      /\ job.run[r].steps < Len(PipelineSteps)
      /\ job' = [job EXCEPT !.run[r].steps = @ + 1]
      /\ lastOp' = Op("run", r, "", NoRow, PipelineSteps[job.run[r].steps + 1])
      /\ UNCHANGED storeVars

\* finally: _release_lock(), after the last step or after an exception
JobRelease ==
    \E r \in JobRuns :
      /\ job.run[r].stage = "running"
      /\ job' = [job EXCEPT !.lock = NoLock, !.run[r].stage = "finished"]
      /\ lastOp' = Op("_release_lock", r, "", NoRow, "")
      /\ UNCHANGED storeVars

\* the run is started again (next schedule, next request)
JobRestart ==
    \E r \in JobRuns :
      /\ job.run[r].stage \in {"skipped", "finished"}
      /\ job' = [job EXCEPT !.run[r] = RunIdle]
      /\ lastOp' = Op("run", r, "", NoRow, "start")
      /\ UNCHANGED storeVars

NextJob ==
    \/ JobCheckLock /\ UNCHANGED butJob
    \/ JobWriteLock /\ UNCHANGED butJob
    \/ JobStep /\ UNCHANGED butJob
    \/ JobRelease /\ UNCHANGED butJob
    \/ JobRestart /\ UNCHANGED butJob
    \/ Tick(MaxJobNow) /\ UNCHANGED procVars

SpecJob == Init /\ [][NextJob]_vars

\* run r executes a pipeline step in this step
ExecutesStep(r) ==
    /\ lastOp'.op = "run"
    /\ lastOp'.impl = r
    /\ lastOp'.status \in {PipelineSteps[i] : i \in 1 .. Len(PipelineSteps)}

\* run q acquired the lock less than two hours ago and has not finished
HoldsFreshLock(q) ==
    /\ job.run[q].stage = "running"
    /\ now - job.run[q].acquiredAt < LOCK_MAX_AGE

\* C17 (as stated): while a run that acquired the lock file less than about
\* two hours ago is still executing, no other run executes a pipeline step.
C17_Original ==
    [][\A r \in JobRuns : ExecutesStep(r) =>
          \A q \in JobRuns \ {r} : ~HoldsFreshLock(q)]_vars

\* supplementary: a run that finds a lock younger than two hours skips
C17_FreshLockSkips ==
    [][\A r \in JobRuns :
          (lastOp'.op = "_acquire_lock" /\ lastOp'.impl = r /\ job.run[r].stage = "idle"
             /\ LockActive(job.lock, now))
              => job'.run[r].stage = "skipped"]_vars

----------------------------------------------------------------------------
(* The pagination loops: data_prices.GetMoexHistory, moex.fetch_range and
   invest_core.moex_history._fetch_pages, one request per step. The upstream
   holds n rows for the window and returns those from the offset asked, a page
   at a time; the TOTAL it reports may be absent or wrong. *)

Pagers == {"GetMoexHistory", "fetch_range", "_fetch_pages"}

\* the number of rows of the page at offset start
PageRows(n, start) ==
    IF start >= n THEN 0 ELSE IF n - start < PageSize THEN n - start ELSE PageSize

\* isinstance(total_reported, int) and start_offset >= total_reported
ReachedTotal(total, offset) == total # NoTotal /\ offset >= total

StopsAfterPage_OnlyOnTotal(fn, first, rows, offset, total) ==
    ReachedTotal(total, offset)

\* whether the loop ends after a page of `rows` rows that moved the offset to `offset`
StopsAfterPage(fn, first, rows, offset, total) ==
    IF fn = "GetMoexHistory" THEN rows = 0 \/ ReachedTotal(total, offset)
    ELSE IF fn = "_fetch_pages" THEN rows = 0
    ELSE \* fetch_range: the first page is not tested for emptiness; later pages
         \* are requested only while a TOTAL is reported and not reached
         \/ total = NoTotal
         \/ ReachedTotal(total, offset)
         \/ ~first /\ rows < PageSize

PagerStart ==
    \E fn \in Pagers, n \in 0 .. MaxUpstreamRows, total \in {NoTotal} \cup 1 .. MaxUpstreamRows + 1 :
      /\ pager.stage = "idle"
      /\ pager' = [fn |-> fn, stage |-> "loop", start |-> 0, first |-> TRUE, n |-> n, total |-> total]
      /\ lastOp' = Op("PagerStart", fn, "", NoRow, "")
      /\ UNCHANGED storeVars

\* one request and the tests that follow it
PagerFetch ==
    LET rows == PageRows(pager.n, pager.start)
        offset == pager.start + rows
    IN /\ pager.stage = "loop"
       /\ pager' = [pager EXCEPT !.start = offset, !.first = FALSE,
                                 !.stage = IF StopsAfterPage(pager.fn, pager.first, rows, offset, pager.total)
                                           THEN "stopped" ELSE "loop"]
       /\ lastOp' = Op("PagerFetch", pager.fn, "", NoRow, "")
       /\ UNCHANGED storeVars

NextPager ==
    \/ PagerStart /\ UNCHANGED butPager
    \/ PagerFetch /\ UNCHANGED butPager

SpecPager == Init /\ [][NextPager]_vars /\ WF_vars(PagerFetch /\ UNCHANGED butPager)

PagerFetchStep == lastOp'.op = "PagerFetch"

\* the page just requested was empty
EmptyPage == PageRows(pager.n, pager.start) = 0

\* C18 (as stated): the pagination loop always terminates, and it stops as soon
\* as the offset reaches the reported total or a page returns zero rows,
\* whether the total is right, wrong or absent.
C18_Original ==
    /\ [][PagerFetchStep =>
            ((EmptyPage \/ ReachedTotal(pager.total, pager'.start)) => pager'.stage = "stopped")]_vars
    /\ (pager.stage = "loop") ~> (pager.stage = "stopped")

\* C18 (amended): every pagination loop terminates when the upstream returns
\* an empty page past its last row. All stop after an empty page requested
\* after the first; GetMoexHistory and fetch_range also stop once the offset
\* has reached a reported total; _fetch_pages ignores the total and goes on
\* until a page is empty.
C18_StopsPerLoop ==
    /\ [][PagerFetchStep =>
            /\ (EmptyPage /\ (pager.fn = "fetch_range" => ~pager.first)) => pager'.stage = "stopped"
            /\ (pager.fn # "_fetch_pages" /\ ReachedTotal(pager.total, pager'.start))
                  => pager'.stage = "stopped"
            /\ (pager.fn = "_fetch_pages" /\ ~EmptyPage) => pager'.stage = "loop"]_vars
    /\ (pager.stage = "loop") ~> (pager.stage = "stopped")

\* _fetch_pages about to request a page although the offset has reached the total
C18_Witness ==
    /\ pager.fn = "_fetch_pages"
    /\ pager.stage = "loop"
    /\ pager.start > 0
    /\ ReachedTotal(pager.total, pager.start)

----------------------------------------------------------------------------
(* The retry loops: _post of data_forecasts and of main, async_api._post_async
   and data_prices._fetch_page, one HTTP attempt per step. Sleeps are counted
   in halves of the backoff base. *)

ApiFetchers == {"_post_df", "_post_main", "_post_async"}
Fetchers == ApiFetchers \cup {"_fetch_page"}
FetchPageRetries == 4        \* _fetch_page(..., retries: int = 4, ...)
NetworkError == 0            \* no response: Timeout / ConnectionError

\* what one attempt can meet: a status code or no response at all
Responses(fn) ==
    IF fn = "_fetch_page" THEN {200, 204, 404, 500, NetworkError}
    ELSE {200, 401, 404, 500, NetworkError}

RECURSIVE Pow2(_)
Pow2(k) == IF k <= 0 THEN 1 ELSE 2 * Pow2(k - 1)

\* API_BACKOFF_BASE * (2 ** (attempt - 1)) + random.uniform(0, API_BACKOFF_BASE)
\* (no jitter in _post_async; backoff * attempt in _fetch_page)
Backoffs(fn, attempt) ==
    IF fn = "_fetch_page" THEN {2 * attempt}
    ELSE IF fn = "_post_async" THEN {2 * Pow2(attempt - 1)}
    ELSE {2 * Pow2(attempt - 1) + jitter : jitter \in 0 .. 2}

\* the except branch: give up on the last attempt, else sleep and go round
OnError(fn, attempt, max) ==
    IF attempt >= max THEN IF fn = "_fetch_page" THEN "raise" ELSE "null" ELSE "retry"

\* what the loop body does with the response of attempt number `attempt`
Handle(fn, endpoint, attempt, max, status) ==
    IF status = NetworkError THEN OnError(fn, attempt, max)
    ELSE IF fn \in {"_post_df", "_post_main"} THEN
         IF status = 404 /\ endpoint = "GetForecastBy" THEN "null"
         ELSE IF status >= 500 THEN OnError(fn, attempt, max)
         ELSE IF status >= 400 THEN OnError(fn, attempt, max)   \* resp.raise_for_status()
         ELSE "return"
    ELSE IF fn = "_post_async" THEN
         IF status >= 500 THEN OnError(fn, attempt, max)
         ELSE IF status >= 400 THEN "null"
         ELSE "return"
    ELSE \* _fetch_page
         IF status >= 500 THEN OnError(fn, attempt, max)
         ELSE IF status # 200 THEN
              \* if attempt >= retries: resp.raise_for_status(); sleep; continue
              IF attempt >= max /\ status >= 400 THEN "raise" ELSE "retry"
         ELSE "return"

FetchStart ==
    \E fn \in Fetchers, endpoint \in {"GetForecastBy", "FindInstrument"}, max \in 1 .. MaxApiAttempts :
      /\ fetch.stage = "idle"
      /\ fn = "_fetch_page" => max = FetchPageRetries /\ endpoint = "GetForecastBy"
      /\ fetch' = [FetchIdle EXCEPT !.fn = fn, !.endpoint = IF fn = "_fetch_page" THEN "history" ELSE endpoint,
                                    !.max = max, !.stage = "loop"]
      /\ lastOp' = Op("FetchStart", fn, "", NoRow, "")
      /\ UNCHANGED storeVars

\* one pass of the loop body: the request, the status tests, the sleep
FetchAttempt ==
    \E status \in Responses(fetch.fn) :
      LET attempt == fetch.attempt + 1
          result == Handle(fetch.fn, fetch.endpoint, attempt, fetch.max, status)
      IN /\ fetch.stage = "loop"
         /\ fetch.attempt < MaxAttemptsSeen
         /\ \E backoff \in Backoffs(fetch.fn, attempt) :
              fetch' = [fetch EXCEPT !.attempt = attempt,
                                     !.stage = IF result = "retry" THEN "loop" ELSE result,
                                     !.sleeps = IF result = "retry" THEN Append(@, backoff) ELSE @]
         /\ lastOp' = Op("FetchAttempt", fetch.fn, "", [status |-> status], result)
         /\ UNCHANGED storeVars

NextFetch ==
    \/ FetchStart /\ UNCHANGED butFetch
    \/ FetchAttempt /\ UNCHANGED butFetch

SpecFetch == Init /\ [][NextFetch]_vars

\* base * 2^(k-1) plus a jitter of at most one base
AboutExponential(k, sleep) == 2 * Pow2(k - 1) <= sleep /\ sleep <= 2 * Pow2(k - 1) + 2

\* C19 (as stated): a fetch makes at most the configured number of attempts;
\* the sleep after failed attempt k is about base * 2^(k-1) plus jitter, and
\* after the last failed attempt the fetch gives up.
C19_Original ==
    /\ fetch.attempt <= fetch.max
    /\ \A k \in 1 .. Len(fetch.sleeps) : AboutExponential(k, fetch.sleeps[k])

\* supplementary: the three API fetchers satisfy it
C19_ApiFetchersBounded ==
    fetch.fn \in ApiFetchers =>
        /\ fetch.attempt <= fetch.max
        /\ fetch.attempt = fetch.max => fetch.stage # "loop"
        /\ \A k \in 1 .. Len(fetch.sleeps) : AboutExponential(k, fetch.sleeps[k])

\* supplementary: _fetch_page past its fourth attempt
C19_FetchPageKeepsOn ==
    /\ fetch.fn = "_fetch_page"
    /\ fetch.stage = "loop"
    /\ fetch.attempt > FetchPageRetries

\* an attempt of an API fetcher answered by a client error other than the
\* forecast lookup's 404
ClientErrorStep ==
    /\ lastOp'.op = "FetchAttempt"
    /\ lastOp'.impl \in ApiFetchers
    /\ lastOp'.arg.status \in 400 .. 499
    /\ ~(lastOp'.arg.status = 404 /\ fetch.endpoint = "GetForecastBy")

\* C20 (as stated): a client-error response other than the forecast lookup's
\* 404 is not retried: no backoff sleep follows and the fetch returns null.
C20_Original ==
    [][ClientErrorStep => /\ fetch'.stage = "null"
                          /\ fetch'.sleeps = fetch.sleeps]_vars

\* supplementary: _post_async does return null at once
C20_AsyncNotRetried ==
    [][(ClientErrorStep /\ lastOp'.impl = "_post_async")
          => /\ fetch'.stage = "null"
             /\ fetch'.sleeps = fetch.sleeps]_vars

----------------------------------------------------------------------------
(* The consensus passes request by request: UpdateConsensusForecasts and
   EnsureForecastsForMissingShares of data_forecasts (over _post),
   async_api.FetchConsensusBatch (over _post_async, its workers taken one
   after the other) and invest_core.forecasts.FillingConsensusData (over
   _post_get_forecast_by) *)

API_MAX_ATTEMPTS == 3
LookupFns == {"UpdateConsensusForecasts", "EnsureForecastsForMissingShares",
              "FetchConsensusBatch", "FillingConsensusData"}
LookupStatuses == {200, 401, 403, 404, 500}

\* the fetcher under each pass
FetcherOf(fn) ==
    IF fn = "FetchConsensusBatch" THEN "_post_async"
    ELSE IF fn = "FillingConsensusData" THEN "_post_get_forecast_by"
    ELSE "_post_df"

\* invest_core.forecasts._post_get_forecast_by: one request, no retry
_post_get_forecast_by(status) ==
    IF status = NetworkError THEN "null"
    ELSE IF status = 401 \/ status = 403 THEN "auth_error"
    ELSE IF status # 200 THEN "http_error"
    ELSE "data"

\* what the fetch gives back after the response of attempt number `attempt`,
\* "retry" when it sleeps and requests again
FetchOutcome(fn, attempt, status) ==
    IF FetcherOf(fn) = "_post_get_forecast_by" THEN _post_get_forecast_by(status)
    ELSE LET h == Handle(FetcherOf(fn), "GetForecastBy", attempt, API_MAX_ATTEMPTS, status)
         IN IF h = "return" THEN "data" ELSE h

CounterOf_NullIsError(fn, result) ==
    IF result = "data" THEN "updated" ELSE "errors"

\* the counter the pass raises for what the fetch gave back: stats["empty"],
\* empty, not_found for no data; a stopped pass counts nothing
CounterOf(fn, result) ==
    IF result = "data" THEN "updated"
    ELSE IF result = "auth_error" THEN "none"
    ELSE "empty"

\* where the pass is after its call of PruneHistory: the call is not inside
\* a try, so what PruneHistory raises leaves the pass
PruneCaller(outcome) == IF outcome = "raise" THEN "raised" ELSE "done"

\* SELECT ... WHERE NOT EXISTS (consensus_forecasts) AND NOT EXISTS (consensus_targets)
MissingUids ==
    SelectSeq(LookupUids, LAMBDA u : UidRows(cf, u) = {} /\ {r \in ct : r.uid = u} = {})

LookupStart ==
    \E fn \in LookupFns, token \in BOOLEAN :
      /\ lookup.stage = "idle"
      /\ lookup' = [LookupIdle EXCEPT
                      !.fn = fn, !.token = token, !.idx = 1,
                      \* EnsureForecastsForMissingShares: if not token: return
                      !.stage = IF fn = "EnsureForecastsForMissingShares" /\ ~token
                                THEN "done" ELSE "request",
                      !.uids = IF fn = "EnsureForecastsForMissingShares" THEN MissingUids
                               ELSE LookupUids]
      /\ lastOp' = Op("LookupStart", fn, "", NoRow, "")
      /\ UNCHANGED storeVars

\* the pass after the fetch for the current uid gave `result`
AfterFetch(lk, result) ==
    LET u == lk.uids[lk.idx]
        counted == [lk EXCEPT !.result[u] = result, !.attempt = 0,
                              !.stats[CounterOf(lk.fn, result)] = @ + 1]
    IN IF result = "auth_error"
       THEN [lk EXCEPT !.result[u] = result, !.attempt = 0, !.stage = "halted"]
       ELSE IF result = "data" /\ lk.fn # "FetchConsensusBatch"
       THEN [lk EXCEPT !.result[u] = result, !.attempt = 0, !.stage = "consensus"]
       ELSE [counted EXCEPT !.idx = @ + 1]

\* one HTTP attempt of the fetch for the current uid and what follows it up to
\* the next request; without a token _post and _post_async return None at once
LookupRequest ==
    LET u == lookup.uids[lookup.idx]
        sends == lookup.token \/ lookup.fn = "FillingConsensusData"
    IN /\ lookup.stage = "request"
       /\ lookup.idx <= Len(lookup.uids)
       /\ IF ~sends
          THEN /\ lookup' = AfterFetch(lookup, "null")
               /\ lastOp' = Op("LookupRequest", lookup.fn, u, [status |-> -1, sent |-> FALSE], "null")
          ELSE \E status \in LookupStatuses \cup {NetworkError} :
                 LET attempt == lookup.attempt + 1
                     outcome == FetchOutcome(lookup.fn, attempt, status)
                     sent == [lookup EXCEPT !.requests[u] = @ + 1, !.attempt = attempt]
                 IN /\ lookup' = IF outcome = "retry" THEN sent ELSE AfterFetch(sent, outcome)
                    /\ lastOp' = Op("LookupRequest", lookup.fn, u,
                                    [status |-> status, sent |-> TRUE], outcome)
       /\ UNCHANGED storeVars

\* AddConsensusForecasts for the current uid
LookupStoreConsensus ==
    /\ lookup.stage = "consensus"
    /\ IF lookup.fn = "FillingConsensusData"
       THEN AddConsensusForecasts_ic({PassConsensus(lookup.uids[lookup.idx])}, MaxLookupRows)
       ELSE AddConsensusForecasts_df({PassConsensus(lookup.uids[lookup.idx])}, MaxLookupRows)
    /\ lookup' = [lookup EXCEPT !.stage = "targets"]

\* AddConsensusTargets for the current uid, then the counter
LookupStoreTargets ==
    /\ lookup.stage = "targets"
    /\ IF lookup.fn = "FillingConsensusData"
       THEN AddConsensusTargets_ic({PassTargets(lookup.uids[lookup.idx])})
       ELSE AddConsensusTargets_df({PassTargets(lookup.uids[lookup.idx])}, MaxLookupRows)
    /\ lookup' = [lookup EXCEPT !.stage = "request", !.idx = @ + 1, !.stats.updated = @ + 1]

\* after the loop: UpdateConsensusForecasts prunes, EnsureForecastsForMissingShares
\* prunes if it added anything, the other two return their counters
LookupFinish ==
    /\ lookup.stage = "request"
    /\ lookup.idx > Len(lookup.uids)
    /\ lookup' = [lookup EXCEPT !.stage = "done"]
    /\ IF \/ lookup.fn = "UpdateConsensusForecasts"
          \/ lookup.fn = "EnsureForecastsForMissingShares" /\ lookup.stats.updated > 0
       THEN PruneHistory_df
       ELSE /\ lastOp' = Op("LookupFinish", lookup.fn, "", NoRow, "")
            /\ UNCHANGED storeVars

\* PruneHistory called after the loop fails (sqlite3.OperationalError on a
\* locked or unwritable database): its connection rolls back, and the
\* exception leaves PruneHistory and, uncaught, the pass that called it
LookupPruneFails ==
    /\ lookup.stage = "request"
    /\ lookup.idx > Len(lookup.uids)
    /\ \/ lookup.fn = "UpdateConsensusForecasts"
       \/ lookup.fn = "EnsureForecastsForMissingShares" /\ lookup.stats.updated > 0
    /\ lookup' = [lookup EXCEPT !.stage = PruneCaller("raise")]
    /\ lastOp' = Op("PruneHistory.raise", "df", "", NoRow, "raise")
    /\ UNCHANGED storeVars

\* the next run
LookupAgain ==
    /\ lookup.stage \in {"done", "halted", "raised"}
    /\ lookup' = LookupIdle
    /\ lastOp' = Op("LookupAgain", lookup.fn, "", NoRow, "")
    /\ UNCHANGED storeVars

NextLookup ==
    \/ LookupStart /\ UNCHANGED butLookup
    \/ LookupRequest /\ UNCHANGED butLookup
    \/ LookupStoreConsensus /\ UNCHANGED butLookup
    \/ LookupStoreTargets /\ UNCHANGED butLookup
    \/ LookupFinish /\ UNCHANGED butLookup
    \/ LookupPruneFails /\ UNCHANGED butLookup
    \/ LookupAgain /\ UNCHANGED butLookup
    \/ Tick(MaxLookupNow) /\ UNCHANGED procVars

SpecLookup == Init /\ [][NextLookup]_vars

----------------------------------------------------------------------------
(* The full-universe price pass: load_all_perspective of data_prices and of
   moex_history_4_perspective_shares, one iteration of its loop at a time *)

SweepFns == {"data_prices", "moex_history_4_perspective_shares"}
SweepHorizons == {1, 2}
SweepBoard == "TQBR"

\* _delete_old / _delete_old_rows: DELETE ... WHERE BOARDID=? AND SECID=? AND
\* TRADE_SESSION_DATE < today - (horizon_days - 1)
_delete_old(tbl, board, secid, horizon_days) ==
    {r \in tbl : ~(/\ r.BOARDID = board
                   /\ r.SECID = secid
                   /\ r.TRADE_SESSION_DATE < DateOf(now) - (horizon_days - 1))}

\* the range load_all_perspective asks GetMoexHistory for, NoDate twice when
\* the security is up to date
SweepRange(board, secid, horizon_days) ==
    LET _max == MaxDate({r.TRADE_SESSION_DATE :
                           r \in {q \in bars : q.BOARDID = board /\ q.SECID = secid}})
    IN IF _max # NoDate
       THEN IF _max + 1 <= DateOf(now) THEN [from |-> _max + 1, till |-> DateOf(now)]
            ELSE [from |-> NoDate, till |-> NoDate]
       ELSE [from |-> DateOf(now) - horizon_days, till |-> DateOf(now)]

\* the page requests GetMoexHistory makes for the rows ISS holds
PageRequests(all) ==
    IF Len(all) = 0 THEN 1 ELSE (Len(all) + PageSize - 1) \div PageSize

\* the values of PRICE_LIMIT_INSTRUMENTS: unset, numbers, not a number
LimitEnvs == {"", "0", "1", "-1", "x"}
IntTexts == {"0", "1", "-1"}

\* int(limit_env) of a text that parses
int(text) == IF text = "0" THEN 0 ELSE IF text = "1" THEN 1 ELSE -1

_limited_secids_NoLimit(secids, limit_env) == secids

\* data_prices._limited_secids: secids[:n] when PRICE_LIMIT_INSTRUMENTS is a
\* number n >= 0, else the whole list
_limited_secids(secids, limit_env) ==
    IF limit_env # "" /\ limit_env \in IntTexts /\ int(limit_env) >= 0
    THEN SubSeq(secids, 1, IF int(limit_env) <= Len(secids) THEN int(limit_env) ELSE Len(secids))
    ELSE secids

\* the start of load_all_perspective up to its loop; only data_prices reads
\* PRICE_LIMIT_INSTRUMENTS
SweepStart ==
    \E fn \in SweepFns, horizon_days \in SweepHorizons, limit_env \in LimitEnvs :
      /\ sweep.stage = "idle"
      /\ fn # "data_prices" => limit_env = ""
      /\ sweep' = [SweepIdle EXCEPT !.fn = fn, !.stage = "loop",
                                    !.horizon_days = horizon_days,
                                    !.secids = IF fn = "data_prices"
                                               THEN _limited_secids(SweepSecids, limit_env)
                                               ELSE SweepSecids,
                                    !.idx = 1]
      /\ lastOp' = Op("SweepStart", fn, "", [limit_env |-> limit_env], "")
      /\ UNCHANGED storeVars

\* the body of the loop for one security: GetMoexHistory over the range, then
\* _delete_old; raised_at > 0 is the page request at which _fetch_page gave
\* up and raised, the pages before it being committed
SweepIteration(tbl, board, secid, horizon_days, range, raised_at) ==
    LET all == IF range.from = NoDate THEN <<>>
               ELSE UpstreamRows(board, secid, range.from, range.till)
    IN IF range.from = NoDate THEN _delete_old(tbl, board, secid, horizon_days)
       ELSE IF raised_at > 0
       THEN InsertRows(tbl, SubSeq(all, 1, (raised_at - 1) * PageSize))
       ELSE _delete_old(PageLoop(tbl, all, 0), board, secid, horizon_days)

SweepInstrument ==
    LET s == sweep.secids[sweep.idx]
        range == SweepRange(SweepBoard, s, sweep.horizon_days)
        all == IF range.from = NoDate THEN <<>>
               ELSE UpstreamRows(SweepBoard, s, range.from, range.till)
    IN /\ sweep.stage = "loop"
       /\ sweep.fn \in SweepFns
       /\ sweep.idx <= Len(sweep.secids)
       /\ \E raised_at \in 0 .. (IF range.from = NoDate THEN 0 ELSE PageRequests(all)) :
            LET outcome == IF raised_at > 0 THEN "error"
                           ELSE IF range.from = NoDate THEN "no_fetch" ELSE "fetched"
            IN /\ bars' = SweepIteration(bars, SweepBoard, s, sweep.horizon_days, range, raised_at)
               /\ sweep' = [sweep EXCEPT !.idx = @ + 1, !.per_security[s] = outcome]
               /\ lastOp' = Op("load_all_perspective", sweep.fn, s,
                               [horizon_days |-> sweep.horizon_days, range |-> range],
                               outcome)
       /\ UNCHANGED <<now, cf, cfNextId, cfHasHash, icf, ct, ctNextId, ict, icbars, ip, sp>>

\* data_prices only (load_all_perspective, ensure_full_coverage):
\* PRICE_GLOBAL_TIMEOUT_SEC has run out at the top of the loop
SweepTimeout ==
    /\ sweep.stage = "loop"
    /\ sweep.fn \in {"data_prices", "ensure_full_coverage"}
    /\ sweep.idx <= Len(sweep.secids)
    /\ sweep' = [sweep EXCEPT !.stage = "done", !.timeout_reached = TRUE]
    /\ lastOp' = Op("SweepTimeout", sweep.fn, "", NoRow, "")
    /\ UNCHANGED storeVars

\* the loop is over (recompute_potentials = False): the summary is returned
SweepReturn ==
    /\ sweep.stage = "loop"
    /\ sweep.idx > Len(sweep.secids)
    /\ sweep' = [sweep EXCEPT !.stage = "done"]
    /\ lastOp' = Op("SweepReturn", sweep.fn, "", NoRow, "")
    /\ UNCHANGED storeVars

\* the next pass
SweepAgain ==
    /\ sweep.stage = "done"
    /\ sweep' = SweepIdle
    /\ lastOp' = Op("SweepAgain", sweep.fn, "", NoRow, "")
    /\ UNCHANGED storeVars

NextSweep ==
    \/ SweepStart /\ UNCHANGED butSweep
    \/ SweepInstrument /\ UNCHANGED butSweep
    \/ SweepTimeout /\ UNCHANGED butSweep
    \/ SweepReturn /\ UNCHANGED butSweep
    \/ SweepAgain /\ UNCHANGED butSweep
    \/ Tick(MaxSweepNow) /\ UNCHANGED procVars

SpecSweep == Init /\ [][NextSweep]_vars

----------------------------------------------------------------------------
(* Properties of the full-universe price pass *)

\* no bar of the security on the board is older than the trailing window
WindowKept(tbl, board, secid, horizon_days) ==
    \A r \in tbl : (r.BOARDID = board /\ r.SECID = secid)
                      => r.TRADE_SESSION_DATE >= DateOf(now) - (horizon_days - 1)

\* the pass has just been through the body of its loop for a security
ReachedStep == lastOp'.op = "load_all_perspective"

\* C24 (as stated): in a full-universe price pass the trailing-window deletion
\* runs for every instrument the pass reaches whether or not its fetch
\* succeeded, and a fetch error on one instrument does not keep the pass from
\* the next one.
C24_Original ==
    [][ReachedStep =>
          /\ WindowKept(bars', SweepBoard, lastOp'.uid, sweep.horizon_days)
          /\ sweep'.stage = "loop"
          /\ sweep'.idx = sweep.idx + 1]_vars

\* supplementary: deletion runs for every instrument whose fetch did not
\* raise, fetched or up to date, and the pass goes on to the next instrument
\* after a fetch error
C24_DeletionUnlessFetchRaised ==
    [][ReachedStep =>
          /\ lastOp'.status # "error"
                => WindowKept(bars', SweepBoard, lastOp'.uid, sweep.horizon_days)
          /\ lastOp'.status = "error"
                => \A r \in bars : r.SECID = lastOp'.uid => r \in bars'
          /\ sweep'.stage = "loop"
          /\ sweep'.idx = sweep.idx + 1]_vars

\* supplementary: the fetch of the first instrument raised, its bar from
\* before the window is still stored, and the second instrument was fetched
C24_ErrorLeftOldBar ==
    /\ sweep.stage = "done"
    /\ sweep.per_security["GAZP"] = "error"
    /\ sweep.per_security["SBER"] = "fetched"
    /\ ~WindowKept(bars, SweepBoard, "GAZP", sweep.horizon_days)
    /\ WindowKept(bars, SweepBoard, "SBER", sweep.horizon_days)

\* the step is the backfill of a security without stored bars, its fetch done
BackfillStep ==
    /\ ReachedStep
    /\ lastOp'.status = "fetched"
    /\ lastOp'.arg.range.from = DateOf(now) - sweep.horizon_days

\* the security of the step holds a bar of trade date d after the step
HoldsBar(d) ==
    \E r \in bars' : r.BOARDID = SweepBoard /\ r.SECID = lastOp'.uid /\ r.TRADEDATE = d

\* C38 (as stated): a price bar whose trade date lies inside the window
\* requested by a backfill, [today - horizon_days, today], is never deleted by
\* the trailing-window maintenance of the same pass.
C38_Original ==
    [][BackfillStep =>
          \A d \in 0 .. DateOf(now) : d >= DateOf(now) - sweep.horizon_days => HoldsBar(d)]_vars

\* supplementary: what the maintenance keeps of a backfill are the bars from
\* today - (horizon_days - 1) on; the bar of the first day requested is
\* deleted in the iteration that fetched it
C38_FirstDayDeleted ==
    [][BackfillStep =>
          \A d \in 0 .. DateOf(now) : HoldsBar(d) <=> d >= DateOf(now) - (sweep.horizon_days - 1)]_vars

----------------------------------------------------------------------------
(* Properties of the request-by-request passes *)

\* a request of the pass was answered with one of the statuses given
AnsweredWith(statuses) ==
    /\ lastOp'.op = "LookupRequest"
    /\ lastOp'.arg.sent
    /\ lastOp'.arg.status \in statuses

\* the fetch for the uid ended with this step, and the pass moved on with one
\* more instrument counted as empty and none as an error
CountedEmpty ==
    /\ lookup'.idx = lookup.idx + 1
    /\ lookup'.stage = "request"
    /\ lookup'.stats.empty = lookup.stats.empty + 1
    /\ lookup'.stats.errors = lookup.stats.errors
    /\ lookup'.stats.updated = lookup.stats.updated

C22_Original ==
    [][AnsweredWith({401, 403}) =>
          /\ lookup'.stage = "halted"
          /\ lookup'.requests[lastOp'.uid] = 1]_vars

\* supplementary: FillingConsensusData of invest_core does stop
C22_FillingConsensusDataHalts ==
    [][(AnsweredWith({401, 403}) /\ lookup.fn = "FillingConsensusData") =>
          /\ lookup'.stage = "halted"
          /\ lookup'.requests[lastOp'.uid] = 1]_vars

\* supplementary: a pass over _post that met 401 three times for its first
\* instrument and went on to request the second
C22_RetriedAndWentOn ==
    /\ lookup.fn = "UpdateConsensusForecasts"
    /\ lookup.requests["U1"] = 3
    /\ lookup.result["U1"] = "null"
    /\ lookup.requests["U2"] = 1
    /\ lastOp.op = "LookupRequest"
    /\ lastOp.arg.status = 401

\* a step of the loop or of the end of a pass of data_forecasts that was
\* started without a token
TokenlessStep(fns) ==
    /\ lookup.fn \in fns
    /\ ~lookup.token
    /\ lookup.stage = "request"

\* the step sent no request and changed no stored forecast or target row
NoOpStep ==
    /\ lookup'.requests = lookup.requests
    /\ cf' = cf
    /\ ct' = ct

\* C23 (as stated): without a credential the forecast stages send no request
\* and change no stored forecast or target row.
C23_Original ==
    [][TokenlessStep({"UpdateConsensusForecasts", "EnsureForecastsForMissingShares"})
          => NoOpStep]_vars

\* supplementary: without a token no pass of data_forecasts sends a request
C23_TokenlessSendsNothing ==
    [][(~lookup.token /\ lookup.fn \in {"UpdateConsensusForecasts", "EnsureForecastsForMissingShares"})
          => \A u \in DOMAIN lookup.requests : lookup'.requests[u] <= lookup.requests[u]]_vars

\* supplementary: EnsureForecastsForMissingShares without a token returns
\* before its first statement on the store
C23_EnsureReturnsAtOnce ==
    [][(lastOp'.op = "LookupStart" /\ lookup'.fn = "EnsureForecastsForMissingShares"
          /\ ~lookup'.token) => lookup'.stage = "done"]_vars

\* supplementary: UpdateConsensusForecasts without a token has pruned a stored row
C23_TokenlessPruned ==
    /\ lastOp.op = "PruneHistory"
    /\ lookup.fn = "UpdateConsensusForecasts"
    /\ ~lookup.token
    /\ lookup.stage = "done"
    /\ \A u \in DOMAIN lookup.requests : lookup.requests[u] = 0
    /\ lastOp.status.deleted_c + lastOp.status.deleted_c_age > 0

\* PruneHistory, called by the pass, has failed in this step
PruneFailedStep == lastOp'.op = "PruneHistory.raise"

\* C28 (as stated): a failure inside retention pruning never aborts the sync
\* that invoked it: the sync function still returns normally, and the records
\* it stored before pruning are kept.
C28_Original ==
    [][PruneFailedStep =>
          /\ lookup'.stage = "done"
          /\ cf' = cf
          /\ ct' = ct]_vars

\* supplementary: the records stored before the failed pruning are kept
C28_StoredRecordsKept ==
    [][PruneFailedStep => (cf' = cf /\ ct' = ct)]_vars

\* supplementary: UpdateConsensusForecasts stored both instruments and was
\* then left by the exception of PruneHistory
C28_RaisedAfterStoring ==
    /\ lookup.fn = "UpdateConsensusForecasts"
    /\ lookup.stage = "raised"
    /\ lookup.stats.updated = 2
    /\ UidRows(cf, "U1") # {}
    /\ UidRows(cf, "U2") # {}

----------------------------------------------------------------------------
(* Properties of the latest snapshot *)

\* C26 (as stated): for every uid the latest snapshot is uniquely determined
\* by the maximum snapshot date: no two rows of consensus_forecasts of the same
\* uid share that maximum date.
C26_Original ==
    \A u \in UIDS : Cardinality(LatestRows(cf, u)) <= 1

\* supplementary: data_forecasts.AddConsensusForecasts has just stored a
\* second snapshot of the uid under the timestamp of the first, with another
\* consensus price
C26_TwoLatest ==
    /\ lastOp.op = "AddConsensusForecasts"
    /\ lastOp.impl = "df"
    /\ lastOp.status = "inserted"
    /\ \E r, q \in LatestRows(cf, lastOp.uid) :
         /\ r.id # q.id
         /\ r.recommendationDate = q.recommendationDate
         /\ r.priceConsensus # q.priceConsensus

----------------------------------------------------------------------------
(* Two writers on one key, statement by statement: AddConsensusForecasts and
   AddConsensusTargets of invest_core.forecasts (SQLite backend) and
   main.AddConsensusTargets for one element of its list *)

RaceFns == {"ic.AddConsensusForecasts", "ic.AddConsensusTargets", "main.AddConsensusTargets"}
RaceConsensus == FetchedConsensusIc
RaceTargets == {t \in FetchedTargets : t.recommendationDate = 0}

\* str(ex) of the sqlite3.IntegrityError on PRIMARY KEY (uid, recommendationDate)
SqliteKeyMessage == "UNIQUE constraint failed"

IsUniqueViolation_Never(msg) == FALSE

\* "'UNIQUE' in ex_up or 'DUPLICATE ENTRY' in ex_up"
IsUniqueViolation(msg) == msg \in {"UNIQUE constraint failed", "Duplicate entry"}

RacerAt(w, fn, stage) == racers[w].fn = fn /\ racers[w].stage = stage

RacerTo(w, fn, stage, p, date, result) ==
    racers' = [racers EXCEPT ![w] = [fn |-> fn, stage |-> stage, p |-> p,
                                     date |-> date, result |-> result]]

\* invest_core AddConsensusForecasts: the SELECT of the latest row and the comparison
RaceForecastSelect(w) ==
    \E c \in RaceConsensus :
      LET p == Parsed(c, "ic")
          fn == "ic.AddConsensusForecasts"
      IN /\ racers[w].stage = "idle"
         /\ \E row \in LatestOrNone(icf, c.uid) :
              IF SameAsLast_ic(row, p)
              THEN /\ RacerTo(w, fn, "returned", p, DateOf(now), "dup")
                   /\ lastOp' = Op("AddConsensusForecasts.select", w, c.uid, p, "dup")
              ELSE /\ RacerTo(w, fn, "insert", p, DateOf(now), "")
                   /\ lastOp' = Op("AddConsensusForecasts.select", w, c.uid, p, "changed")
         /\ UNCHANGED storeVars

\* the INSERT; the primary key rejects it when the (uid, date) is stored
RaceForecastInsert(w) ==
    LET r == racers[w]
        key == {q \in icf : q.uid = r.p.uid /\ q.recommendationDate = r.date}
    IN /\ RacerAt(w, "ic.AddConsensusForecasts", "insert")
       /\ IF key = {}
          THEN /\ icf' = icf \cup {IcRow(r.p, r.date)}
               /\ RacerTo(w, r.fn, "returned", r.p, r.date, "inserted")
               /\ lastOp' = Op("AddConsensusForecasts.insert", w, r.p.uid, r.p, "inserted")
          ELSE /\ icf' = icf
               /\ IF IsUniqueViolation(SqliteKeyMessage)
                  THEN /\ RacerTo(w, r.fn, "fallback", r.p, r.date, "")
                       /\ lastOp' = Op("AddConsensusForecasts.insert", w, r.p.uid, r.p, "caught")
                  ELSE /\ RacerTo(w, r.fn, "raised", r.p, r.date, "")
                       /\ lastOp' = Op("AddConsensusForecasts.insert", w, r.p.uid, r.p, "raised")
       /\ UNCHANGED <<now, cf, cfNextId, cfHasHash, ct, ctNextId, ict, bars, icbars, ip, sp>>

\* in the except branch: the SELECT of the row of that date and the comparison
RaceForecastFallback(w) ==
    LET r == racers[w]
        key == {q \in icf : q.uid = r.p.uid /\ q.recommendationDate = r.date}
    IN /\ RacerAt(w, "ic.AddConsensusForecasts", "fallback")
       /\ IF \E row2 \in key : Business(row2) = Business(r.p)
          THEN /\ RacerTo(w, r.fn, "returned", r.p, r.date, "dup")
               /\ lastOp' = Op("AddConsensusForecasts.fallback", w, r.p.uid, r.p, "dup")
          ELSE /\ RacerTo(w, r.fn, "update", r.p, r.date, "")
               /\ lastOp' = Op("AddConsensusForecasts.fallback", w, r.p.uid, r.p, "differs")
       /\ UNCHANGED storeVars

\* in the except branch: UPDATE ... WHERE uid=? AND recommendationDate=?
RaceForecastUpdate(w) ==
    LET r == racers[w]
        key == {q \in icf : q.uid = r.p.uid /\ q.recommendationDate = r.date}
    IN /\ RacerAt(w, "ic.AddConsensusForecasts", "update")
       /\ icf' = (icf \ key) \cup {IcRow(r.p, r.date) : q \in key}
       /\ RacerTo(w, r.fn, "returned", r.p, r.date, "inserted")
       /\ lastOp' = Op("AddConsensusForecasts.update", w, r.p.uid, r.p, "updated")
       /\ UNCHANGED <<now, cf, cfNextId, cfHasHash, ct, ctNextId, ict, bars, icbars, ip, sp>>

\* invest_core AddConsensusTargets: the SELECT by key and the comparison
RaceIcTargetSelect(w) ==
    \E t \in {x \in RaceTargets : x.company # None} :
      LET p == ParsedTarget(t, "ic")
          fn == "ic.AddConsensusTargets"
      IN /\ racers[w].stage = "idle"
         /\ IF TargetKeyRows(ict, p) = {}
            THEN /\ RacerTo(w, fn, "insert", p, 0, "")
                 /\ lastOp' = Op("AddConsensusTargets.select", w, t.uid, p, "none")
            ELSE \E row \in TargetKeyRows(ict, p) :
                   IF TargetValues(row) = TargetValues(p)
                   THEN /\ RacerTo(w, fn, "returned", p, 0, "dup")
                        /\ lastOp' = Op("AddConsensusTargets.select", w, t.uid, p, "dup")
                   ELSE /\ RacerTo(w, fn, "update", p, 0, "")
                        /\ lastOp' = Op("AddConsensusTargets.select", w, t.uid, p, "differs")
         /\ UNCHANGED storeVars

\* its UPDATE by key, or its INSERT into the table that has no key but id
RaceIcTargetWrite(w) ==
    LET r == racers[w]
    IN /\ racers[w].fn = "ic.AddConsensusTargets"
       /\ racers[w].stage \in {"insert", "update"}
       /\ ict' = IF r.stage = "insert" THEN ict \cup {IcTargetRow(r.p)}
                 ELSE (ict \ TargetKeyRows(ict, r.p)) \cup {IcTargetRow(r.p) : q \in TargetKeyRows(ict, r.p)}
       /\ RacerTo(w, r.fn, "returned", r.p, 0, IF r.stage = "insert" THEN "inserted" ELSE "updated")
       /\ lastOp' = Op("AddConsensusTargets.write", w, r.p.uid, r.p,
                       IF r.stage = "insert" THEN "inserted" ELSE "updated")
       /\ UNCHANGED <<now, cf, cfNextId, cfHasHash, icf, ct, ctNextId, bars, icbars, ip, sp>>

\* main.AddConsensusTargets: the key check and INSERT OR IGNORE against the
\* unique index (uid, company, recommendationDate)
RaceTargetInsert(w, maxRows) ==
    \E t \in RaceTargets :
      LET p == ParsedTarget(t, "main")
          fn == "main.AddConsensusTargets"
      IN /\ racers[w].stage = "idle"
         /\ IF TargetKeyMissing(p)
            THEN /\ UNCHANGED <<ct, ctNextId>>
                 /\ RacerTo(w, fn, "returned", p, 0, "skipped")
                 /\ lastOp' = Op("AddConsensusTargets.insert", w, t.uid, p, "skipped")
            ELSE IF TargetKeyRows(ct, p) = {}
            THEN /\ ctNextId <= maxRows
                 /\ ct' = ct \cup {TargetRow(ctNextId, p)}
                 /\ ctNextId' = ctNextId + 1
                 /\ RacerTo(w, fn, "returned", p, 0, "inserted")
                 /\ lastOp' = Op("AddConsensusTargets.insert", w, t.uid, p, "inserted")
            ELSE /\ UNCHANGED <<ct, ctNextId>>
                 /\ RacerTo(w, fn, "select", p, 0, "")
                 /\ lastOp' = Op("AddConsensusTargets.insert", w, t.uid, p, "ignored")
         /\ UNCHANGED <<now, cf, cfNextId, cfHasHash, icf, ict, bars, icbars, ip, sp>>

\* the SELECT of the stored row and the comparison
RaceTargetSelect(w) ==
    LET r == racers[w]
    IN /\ RacerAt(w, "main.AddConsensusTargets", "select")
       /\ \E old \in TargetKeyRows(ct, r.p) :
            IF TargetDiffers_main(old, r.p)
            THEN /\ RacerTo(w, r.fn, "update", r.p, 0, "")
                 /\ lastOp' = Op("AddConsensusTargets.select", w, r.p.uid, r.p, "differs")
            ELSE /\ RacerTo(w, r.fn, "returned", r.p, 0, "duplicate")
                 /\ lastOp' = Op("AddConsensusTargets.select", w, r.p.uid, r.p, "duplicate")
       /\ UNCHANGED storeVars

\* UPDATE consensus_targets SET ... WHERE uid=? AND company=? AND recommendationDate=?
RaceTargetUpdate(w) ==
    LET r == racers[w]
    IN /\ RacerAt(w, "main.AddConsensusTargets", "update")
       /\ ct' = (ct \ TargetKeyRows(ct, r.p)) \cup {TargetRow(old.id, r.p) : old \in TargetKeyRows(ct, r.p)}
       /\ ctNextId' = ctNextId
       /\ RacerTo(w, r.fn, "returned", r.p, 0, "updated")
       /\ lastOp' = Op("AddConsensusTargets.update", w, r.p.uid, r.p, "updated")
       /\ UNCHANGED <<now, cf, cfNextId, cfHasHash, icf, ict, bars, icbars, ip, sp>>

\* the call is over and the caller makes its next one; an exception that left
\* the call stays with the caller
RaceReturn(w) ==
    /\ racers[w].stage = "returned"
    /\ racers' = [racers EXCEPT ![w] = RacerIdle]
    /\ lastOp' = Op("RaceReturn", w, "", NoRow, racers[w].result)
    /\ UNCHANGED storeVars

NextRace ==
    \/ \E w \in Racers : RaceForecastSelect(w) /\ UNCHANGED butRacers
    \/ \E w \in Racers : RaceForecastInsert(w) /\ UNCHANGED butRacers
    \/ \E w \in Racers : RaceForecastFallback(w) /\ UNCHANGED butRacers
    \/ \E w \in Racers : RaceForecastUpdate(w) /\ UNCHANGED butRacers
    \/ \E w \in Racers : RaceIcTargetSelect(w) /\ UNCHANGED butRacers
    \/ \E w \in Racers : RaceIcTargetWrite(w) /\ UNCHANGED butRacers
    \/ \E w \in Racers : RaceTargetInsert(w, MaxRaceRows) /\ UNCHANGED butRacers
    \/ \E w \in Racers : RaceTargetSelect(w) /\ UNCHANGED butRacers
    \/ \E w \in Racers : RaceTargetUpdate(w) /\ UNCHANGED butRacers
    \/ \E w \in Racers : RaceReturn(w) /\ UNCHANGED butRacers
    \/ Tick(MaxRaceNow) /\ UNCHANGED procVars

SpecRace == Init /\ [][NextRace]_vars

----------------------------------------------------------------------------
(* Properties of the racing writers *)

\* the rows stored under the key of the record the writer of this step holds
ForecastKeyRows(tbl, w) ==
    {q \in tbl : q.uid = racers[w].p.uid /\ q.recommendationDate = racers[w].date}

C27_UpdatedInPlace ==
    /\ lastOp.op = "AddConsensusForecasts.update"
    /\ Cardinality(icf) = 1

----------------------------------------------------------------------------
(* A fetched list of targets stored element by element: AddConsensusTargets of
   data_forecasts and of main, and the targets loop of invest_core's
   FillingConsensusData *)

TargetBatchFns == {"df", "main", "ic"}

\* the elements of a fetched list: uid, company and recommendationDate may be absent
BatchTargets ==
    [uid : {"U1", None}, ticker : {"SBER"}, company : {"BrokerX", None},
     recommendation : {"BUY"}, recommendationDate : {0, NoTargetDate}, currency : {"RUB"},
     targetPrice : {RawDict(100, 0), RawDict(110, 0)}, showName : {"Broker"}]

BatchLists == [1 .. MaxBatchTargets -> BatchTargets]

\* FillingConsensusData: t_uid = t.get('uid') or c_uid
WithInstrumentUid(t, c_uid) == [t EXCEPT !.uid = IF @ = None THEN c_uid ELSE @]

\* the counters each function keeps: ins (data_forecasts), inserted and updated
\* (main), targets_inserted and targets_dups (FillingConsensusData)
CountersAfter(fn, c, status) ==
    IF status = "inserted" THEN [c EXCEPT !.inserted = @ + 1]
    ELSE IF status = "updated" /\ fn = "main" THEN [c EXCEPT !.updated = @ + 1]
    ELSE IF status = "duplicate" /\ fn = "ic" THEN [c EXCEPT !.duplicates = @ + 1]
    ELSE c

TargetBatchStart ==
    \E fn \in TargetBatchFns, targets \in BatchLists :
      /\ tbatch.stage = "idle"
      /\ tbatch' = [TargetBatchIdle EXCEPT !.fn = fn, !.stage = "loop",
                                           !.targets = targets, !.idx = 1]
      /\ lastOp' = Op("TargetBatchStart", fn, "", NoRow, "")
      /\ UNCHANGED storeVars

\* one turn of the loop over the list
TargetBatchElement ==
    LET t == tbatch.targets[tbatch.idx]
        eff == WithInstrumentUid(t, "U1")
    IN /\ tbatch.stage = "loop"
       /\ tbatch.idx <= Len(tbatch.targets)
       /\ IF tbatch.fn = "df" THEN AddConsensusTargets_df({t}, MaxBatchRows)
          ELSE IF tbatch.fn = "main" THEN AddConsensusTargets_main({t}, MaxBatchRows)
          \* "if t_uid and t_company and t_date:"
          ELSE IF eff.company # None /\ eff.recommendationDate # NoTargetDate
          THEN AddConsensusTargets_ic({eff})
          ELSE /\ lastOp' = Op("AddConsensusTargets", "ic", t.uid, t, "skipped")
               /\ UNCHANGED storeVars
       /\ tbatch' = [tbatch EXCEPT !.idx = @ + 1,
                                   !.counters = CountersAfter(tbatch.fn, @, lastOp'.status)]

\* the list is through: commit, the log line or the counters returned
TargetBatchReturn ==
    /\ tbatch.stage = "loop"
    /\ tbatch.idx > Len(tbatch.targets)
    /\ tbatch' = [tbatch EXCEPT !.stage = "done"]
    /\ lastOp' = Op("TargetBatchReturn", tbatch.fn, "", NoRow, "")
    /\ UNCHANGED storeVars

\* the next list
TargetBatchAgain ==
    /\ tbatch.stage = "done"
    /\ tbatch' = TargetBatchIdle
    /\ lastOp' = Op("TargetBatchAgain", tbatch.fn, "", NoRow, "")
    /\ UNCHANGED storeVars

NextTargetBatch ==
    \/ TargetBatchStart /\ UNCHANGED butTbatch
    \/ TargetBatchElement /\ UNCHANGED butTbatch
    \/ TargetBatchReturn /\ UNCHANGED butTbatch
    \/ TargetBatchAgain /\ UNCHANGED butTbatch

SpecTargetBatch == Init /\ [][NextTargetBatch]_vars

----------------------------------------------------------------------------
(* Properties of the stored lists *)

\* the element of this turn lacks uid, company or recommendationDate
LacksKeyField(t) ==
    t.uid = None \/ t.company = None \/ t.recommendationDate = NoTargetDate

ElementStep == lastOp'.op = "AddConsensusTargets" /\ tbatch.stage = "loop"

\* everything the function counts
Counted(c) == c.inserted + c.updated + c.duplicates

\* C29 (as stated): a target record that lacks uid, company or snapshot date
\* is never stored and never raises: it is skipped and counted as skipped, and
\* the remaining records of the list are still processed.
C29_Original ==
    [][(ElementStep /\ LacksKeyField(tbatch.targets[tbatch.idx])) =>
          /\ ct' = ct /\ ict' = ict
          /\ Counted(tbatch'.counters) = Counted(tbatch.counters) + 1
          /\ tbatch'.stage = "loop"
          /\ tbatch'.idx = tbatch.idx + 1]_vars

\* supplementary: such a record is not stored, changes no counter and the loop
\* goes on, but for a record lacking only its uid in FillingConsensusData,
\* which is stored under the uid of the instrument
C29_SkippedUncounted ==
    [][(ElementStep /\ LacksKeyField(tbatch.targets[tbatch.idx])) =>
          LET t == tbatch.targets[tbatch.idx]
          IN /\ tbatch'.stage = "loop"
             /\ tbatch'.idx = tbatch.idx + 1
             /\ ct' = ct
             /\ IF tbatch.fn = "ic" /\ ~LacksKeyField(WithInstrumentUid(t, "U1"))
                THEN lastOp'.uid = "U1" /\ lastOp'.status # "skipped"
                ELSE /\ ict' = ict
                     /\ lastOp'.status = "skipped"
                     /\ tbatch'.counters = tbatch.counters]_vars

\* supplementary: a list whose first element lacked its company went on to
\* store its second element, with one record counted in all
C29_SkippedThenStored ==
    /\ tbatch.stage = "done"
    /\ tbatch.fn = "df"
    /\ tbatch.targets[1].company = None
    /\ ~LacksKeyField(tbatch.targets[2])
    /\ Counted(tbatch.counters) = 1
    /\ Cardinality(ct) = 1

----------------------------------------------------------------------------
(* The age phase of PruneHistory over recommendationDate as text.  A stored
   text is [form, tick]: "empty" (NULL or ''), "garbage" (no ISO date),
   "date" (YYYY-MM-DD), "Z" (timestamp with suffix Z), "offset" (timestamp
   with +00:00, as AddConsensusForecasts writes it), "naive" (timestamp
   without zone) *)

DateTexts ==
    {[form |-> "empty", tick |-> 0], [form |-> "garbage", tick |-> 0],
     [form |-> "date", tick |-> 0]}
    \cup [form : {"Z", "offset"}, tick : {0, 1}]

\* data_forecasts: dt_str.rstrip('Z')
rstrip_Z(s) == IF s.form = "Z" THEN [s EXCEPT !.form = "naive"] ELSE s

\* main: val[:-1] + "+00:00" when val ends with Z
Z_to_offset(s) == IF s.form = "Z" THEN [s EXCEPT !.form = "offset"] ELSE s

fromisoformat_AcceptsAll(s) ==
    [ok |-> TRUE, tick |-> s.tick, aware |-> s.form = "offset"]

\* datetime.fromisoformat: a date is midnight; ValueError for anything else
\* than a date or a timestamp with or without offset
fromisoformat(s) ==
    IF s.form \in {"date", "naive", "offset"}
    THEN [ok |-> TRUE, tick |-> s.tick, aware |-> s.form = "offset"]
    ELSE [ok |-> FALSE, tick |-> 0, aware |-> FALSE]

\* dtv < cutoff between datetimes: TypeError when only one of them has a zone
datetime_lt(dtv, cutoff) ==
    IF dtv.aware # cutoff.aware THEN "raise"
    ELSE IF dtv.tick < cutoff.tick THEN "older" ELSE "not_older"

\* _is_older of data_forecasts and of main on the stored text
is_older_text(impl, dt_str, cutoff) ==
    IF dt_str.form = "empty" THEN "not_older"
    ELSE LET parsed == fromisoformat(IF impl = "df" THEN rstrip_Z(dt_str) ELSE Z_to_offset(dt_str))
             \* if dtv.tzinfo is None: dtv = dtv.replace(tzinfo=timezone.utc)
             dtv == [parsed EXCEPT !.aware = TRUE]
         IN IF ~parsed.ok THEN "not_older"
            \* data_forecasts compares inside its try, main after it
            ELSE IF impl = "df" /\ datetime_lt(dtv, cutoff) = "raise" THEN "not_older"
            ELSE datetime_lt(dtv, cutoff)

\* a row arrives with the date text the upstream gave, or is left from a
\* table of an earlier schema whose recommendationDate may be NULL
DatedStore ==
    \E dt_str \in DateTexts :
      /\ dated.nextId <= MaxAgeRows
      /\ dated' = [rows |-> dated.rows \cup {[id |-> dated.nextId, recommendationDate |-> dt_str]},
                   nextId |-> dated.nextId + 1]
      /\ lastOp' = Op("DatedStore", "", "", dt_str, "")
      /\ UNCHANGED storeVars

\* the age phase: cutoff = datetime.now(timezone.utc) - timedelta(days=max_age_days),
\* then _is_older row by row; an exception rolls the deletions back
DatedPrune(impl) ==
    \E max_age_days \in {1, 2} :
      LET cutoff == [tick |-> now - max_age_days * TicksPerDay, aware |-> TRUE]
          raised == \E r \in dated.rows : is_older_text(impl, r.recommendationDate, cutoff) = "raise"
          old == {r \in dated.rows : is_older_text(impl, r.recommendationDate, cutoff) = "older"}
      IN /\ dated' = [dated EXCEPT !.rows = IF raised THEN @ ELSE @ \ old]
         /\ lastOp' = Op("DatedPrune", impl, "", [max_age_days |-> max_age_days],
                         [raised |-> raised, deleted |-> IF raised THEN {} ELSE old])
         /\ UNCHANGED storeVars

NextDated ==
    \/ DatedStore /\ UNCHANGED butDated
    \/ DatedPrune("df") /\ UNCHANGED butDated
    \/ DatedPrune("main") /\ UNCHANGED butDated
    \/ Tick(MaxAgeNow) /\ UNCHANGED procVars

SpecDated == Init /\ [][NextDated]_vars

----------------------------------------------------------------------------
(* Properties of the age phase *)

\* C30: age pruning never deletes a row whose snapshot date is empty or cannot
\* be parsed, whatever the threshold, and it evaluates bare dates and
\* timestamps with suffix Z without raising.
C30_UnparseableKept ==
    [][lastOp'.op = "DatedPrune" =>
          /\ \A r \in dated.rows :
               r.recommendationDate.form \in {"empty", "garbage"} => r \in dated'.rows
          /\ ~lastOp'.status.raised]_vars

\* an age phase that deleted a row dated with suffix Z and one with a bare
\* date next to a row whose date does not parse, which stayed
C30_Witness ==
    /\ lastOp.op = "DatedPrune"
    /\ \E r \in lastOp.status.deleted : r.recommendationDate.form = "Z"
    /\ \E r \in lastOp.status.deleted : r.recommendationDate.form = "date"
    /\ \E r \in dated.rows : r.recommendationDate.form = "garbage"

----------------------------------------------------------------------------
(* The staleness runs: potentials.compute_all over snapshots that age past the
   threshold of 10 days *)

NextStale ==
    \/ Tick(MaxStaleNow) /\ UNCHANGED procVars
    \/ AddConsensusForecasts_df(PotentialConsensus, MaxStaleRows) /\ UNCHANGED procVars
    \/ compute_all /\ UNCHANGED procVars

SpecStale == Init /\ [][NextStale]_vars

\* the step is a pass of compute_all that wrote row r for U1
WrittenForU1(r) ==
    /\ lastOp'.op = "ComputePotentials"
    /\ lastOp'.impl = "df"
    /\ r \in ip' \ ip
    /\ r.uid = "U1"

SnapshotIsStale ==
    \E c \in LatestRows(cf, "U1") :
       now - c.recommendationDate >= (ComputeStaleDays + 1) * TicksPerDay

\* C39 (as stated): after a potential computation pass, every instrument whose
\* latest consensus snapshot is older than the staleness threshold has the
\* staleness flag set on its most recent stored PotentialRecord, also when its
\* close and its consensus price are unchanged since the previous record.
C39_Original ==
    [][(lastOp'.op = "ComputePotentials" /\ lastOp'.impl = "df" /\ SnapshotIsStale)
          => /\ LastPotential(ip', "U1") # NoRow
             /\ LastPotential(ip', "U1").isStale = 1]_vars

\* supplementary: a pass has run over a stale snapshot and an unchanged
\* instrument, and the latest record, written while the snapshot was fresh,
\* still says not stale
C39_StaleUnflagged ==
    /\ lastOp.op = "ComputePotentials"
    /\ lastOp.impl = "df"
    /\ SnapshotIsStale
    /\ LastPotential(ip, "U1") # NoRow
    /\ LastPotential(ip, "U1").isStale = 0
    /\ LastPotential(ip, "U1").consensusPrice = lastOp.arg.consensusPrice
    /\ LastPotential(ip, "U1").prevClose = lastOp.arg.prevClose

----------------------------------------------------------------------------
(* Refetches over an upstream that revises its bars: ISS may serve, for a
   trade date already served, other values than before *)

Revisions == {0, 1}

\* the rows ISS serves once it has revised them: revision 0 is the first
\* publication, a later revision carries another close for every date
RevisedRows(rows, rev) ==
    [i \in DOMAIN rows |->
        [rows[i] EXCEPT !.CLOSE = IF rev = 0 THEN @
                                  ELSE IF @ = NoClose THEN 30 + rev ELSE @ + rev]]

\* data_prices.GetMoexHistory(board, secid, dr_start, dr_end) over the revision
\* rev of the upstream
GetMoexHistory_df_rev(boards, secids, starts, ends, revs) ==
    \E board \in boards, secid \in secids, dr_start \in starts, dr_end \in ends, rev \in revs :
      LET end_date == IF dr_end # NoDate THEN dr_end ELSE DateOf(now)
          start_date == StartDate(bars, board, secid, dr_start)
          served == IF start_date > end_date THEN <<>>
                    ELSE RevisedRows(UpstreamRows(board, secid, start_date, end_date), rev)
          after == IF start_date > end_date THEN bars ELSE PageLoop(bars, served, 0)
      IN /\ bars' = after
         /\ lastOp' = Op("GetMoexHistory", "df", secid,
                         [board |-> board, secid |-> secid, dr_start |-> dr_start, dr_end |-> dr_end],
                         [inserted |-> Cardinality(after) - Cardinality(bars),
                          served |-> served])
         /\ UNCHANGED <<now, cf, cfNextId, cfHasHash, icf, ct, ctNextId, ict, icbars, ip, sp>>

\* invest_core: GetMoexHistoryByUid over the revision rev, its rows handed to AddMoexHistory
AddMoexHistory_ic_rev(boards, secids, starts, ends, revs) ==
    \E board \in boards, secid \in secids, dr_start \in starts, dr_end \in ends, rev \in revs :
      LET served == RevisedRows(GetMoexHistoryByUid(board, secid, dr_start, dr_end), rev)
          res == AddMoexHistoryRows([tbl |-> icbars, inserted |-> 0, duplicates |-> 0], served)
      IN /\ icbars' = res.tbl
         /\ lastOp' = Op("GetMoexHistory", "ic", secid,
                         [board |-> board, secid |-> secid, dr_start |-> dr_start, dr_end |-> dr_end],
                         [inserted |-> res.inserted, served |-> served])
         /\ UNCHANGED <<now, cf, cfNextId, cfHasHash, icf, ct, ctNextId, ict, bars, ip, sp>>

NextRefetch ==
    \/ Tick(MaxPriceNow) /\ UNCHANGED procVars
    \/ CoreUntouched /\ GetMoexHistory_df_rev(Boards, {"SBER"}, RangeStarts, RangeEnds, Revisions)
                     /\ UNCHANGED procVars
    \/ LegacyUntouched /\ AddMoexHistory_ic_rev(Boards, {"SBER"}, RangeStarts, RangeEnds, Revisions)
                       /\ UNCHANGED procVars

SpecRefetch == Init /\ [][NextRefetch]_vars

\* the rows served to the last fetch that carry the key of a stored bar and
\* another close than the stored one
ServedOtherValues(stored, served) ==
    {i \in DOMAIN served : /\ served[i].BOARDID = stored.BOARDID
                           /\ served[i].SECID = stored.SECID
                           /\ served[i].TRADEDATE = stored.TRADEDATE
                           /\ served[i].CLOSE # stored.CLOSE}

\* C32: a stored PriceBar is never changed by a later sync: when a refetch
\* returns other values for a (board, security, trade date) already stored, the
\* stored row keeps its original values.
C32_StoredBarKept ==
    [][lastOp'.op = "GetMoexHistory" =>
          /\ \A r \in bars : r \in bars'
          /\ \A r \in icbars : r \in icbars'
          /\ NoDuplicateBars(bars') /\ NoDuplicateBars(icbars')]_vars

\* a refetch has just been served another close for a stored key and the row
\* holds a close the upstream no longer serves
C32_Witness ==
    /\ lastOp.op = "GetMoexHistory"
    /\ lastOp.impl = "df"
    /\ lastOp.status.inserted = 0
    /\ \E r \in bars : ServedOtherValues(r, lastOp.status.served) # {}

----------------------------------------------------------------------------
(* The soft limits of the price passes of data_prices: PRICE_LIMIT_INSTRUMENTS
   and PRICE_GLOBAL_TIMEOUT_SEC in load_all_perspective and ensure_full_coverage *)

\* "missing = [s for s in all_ids if s not in existing]"
RECURSIVE Missing(_, _)
Missing(all_ids, existing) ==
    IF all_ids = <<>> THEN <<>>
    ELSE (IF Head(all_ids) \in existing THEN <<>> ELSE <<Head(all_ids)>>)
         \o Missing(Tail(all_ids), existing)

\* ensure_full_coverage up to its loop
CoverageStart ==
    \E horizon_days \in SweepHorizons, limit_env \in LimitEnvs :
      LET existing == {r.SECID : r \in {q \in bars : q.BOARDID = SweepBoard}}
          all_ids == _limited_secids(SweepSecids, limit_env)
      IN /\ sweep.stage = "idle"
         /\ sweep' = [SweepIdle EXCEPT !.fn = "ensure_full_coverage", !.stage = "loop",
                                       !.horizon_days = horizon_days,
                                       !.secids = Missing(all_ids, existing),
                                       !.idx = 1]
         /\ lastOp' = Op("SweepStart", "ensure_full_coverage", "", [limit_env |-> limit_env], "")
         /\ UNCHANGED storeVars

\* ensure_full_coverage, the body of the loop for one missing security:
\* GetMoexHistory from today - horizon_days to today, no deletion
CoverageInstrument ==
    LET s == sweep.secids[sweep.idx]
        range == [from |-> DateOf(now) - sweep.horizon_days, till |-> DateOf(now)]
        all == UpstreamRows(SweepBoard, s, range.from, range.till)
    IN /\ sweep.stage = "loop"
       /\ sweep.fn = "ensure_full_coverage"
       /\ sweep.idx <= Len(sweep.secids)
       /\ \E raised_at \in 0 .. PageRequests(all) :
            /\ bars' = IF raised_at > 0
                       THEN InsertRows(bars, SubSeq(all, 1, (raised_at - 1) * PageSize))
                       ELSE PageLoop(bars, all, 0)
            /\ sweep' = [sweep EXCEPT !.idx = @ + 1,
                                      !.per_security[s] = IF raised_at > 0 THEN "error"
                                                          ELSE "fetched"]
            /\ lastOp' = Op("ensure_full_coverage", sweep.fn, s,
                            [horizon_days |-> sweep.horizon_days, range |-> range],
                            IF raised_at > 0 THEN "error" ELSE "fetched")
       /\ UNCHANGED <<now, cf, cfNextId, cfHasHash, icf, ct, ctNextId, ict, icbars, ip, sp>>

NextBudget ==
    \/ SweepStart /\ UNCHANGED butSweep
    \/ SweepInstrument /\ UNCHANGED butSweep
    \/ CoverageStart /\ UNCHANGED butSweep
    \/ CoverageInstrument /\ UNCHANGED butSweep
    \/ SweepTimeout /\ UNCHANGED butSweep
    \/ SweepReturn /\ UNCHANGED butSweep
    \/ SweepAgain /\ UNCHANGED butSweep
    \/ Tick(MaxSweepNow) /\ UNCHANGED procVars

SpecBudget == Init /\ [][NextBudget]_vars

\* the pass works under the soft limits
UnderSoftLimits(fn) == fn \in {"data_prices", "ensure_full_coverage"}

\* the securities of positions 1 .. n of the list
FirstOf(secids, n) == {secids[i] : i \in {j \in 1 .. Len(secids) : j <= n}}

\* C33: when the soft global time budget or the soft instrument-count limit is
\* reached, the price pass stops before starting further instruments and returns
\* a summary for the instruments processed so far; it does not raise and does
\* not undo work already done.
C33_SoftLimitsStopThePass ==
    [][/\ \* the count limit: no instrument beyond the first n is in the list
          (lastOp'.op = "SweepStart" /\ UnderSoftLimits(lastOp'.impl)
           /\ lastOp'.arg.limit_env \in {"0", "1"})
             => /\ Len(sweep'.secids) <= int(lastOp'.arg.limit_env)
                /\ \A i \in 1 .. Len(sweep'.secids) :
                      sweep'.secids[i] \in FirstOf(SweepSecids, int(lastOp'.arg.limit_env))
       /\ \* only listed instruments are started, each entered in the summary
          lastOp'.op \in {"load_all_perspective", "ensure_full_coverage"}
             => /\ sweep.idx <= Len(sweep.secids)
                /\ lastOp'.uid = sweep.secids[sweep.idx]
                /\ sweep'.per_security[lastOp'.uid] # "none"
                /\ \A r \in bars : r.SECID # lastOp'.uid => r \in bars'
       /\ \* the time budget: the pass returns at once, with what it has
          lastOp'.op = "SweepTimeout"
             => /\ sweep'.stage = "done"
                /\ sweep'.timeout_reached
                /\ sweep'.per_security = sweep.per_security
                /\ bars' = bars
       /\ \* the summary returned names the instruments processed, and nothing
          \* is touched once the pass has returned
          sweep.stage = "done"
             => /\ bars' = bars
                /\ \A i \in 1 .. Len(sweep.secids) :
                      (i < sweep.idx) <=> (sweep.per_security[sweep.secids[i]] # "none")]_vars

\* the time budget ran out after the first of two instruments: the pass has
\* returned, the first one's bars are stored and in the summary, the second was
\* never started
C33_Witness ==
    /\ sweep.stage = "done"
    /\ sweep.fn = "data_prices"
    /\ sweep.timeout_reached
    /\ Len(sweep.secids) = 2
    /\ sweep.idx = 2
    /\ sweep.per_security["GAZP"] = "fetched"
    /\ sweep.per_security["SBER"] = "none"
    /\ \E r \in bars : r.SECID = "GAZP"
    /\ \A r \in bars : r.SECID # "SBER"

\* supplementary: a pass limited to one instrument has returned without a
\* timeout, the second instrument never started
C33_LimitedToOne ==
    /\ sweep.stage = "done"
    /\ ~sweep.timeout_reached
    /\ sweep.secids = <<"GAZP">>
    /\ sweep.per_security["GAZP"] = "fetched"
    /\ sweep.per_security["SBER"] = "none"

----------------------------------------------------------------------------
(* moex / moex_utils: the date utilities.  A date is the number of its day. *)

get_date_ranges_NoClamp(start, end, step) ==
    [i \in 1 .. (IF start > end THEN 0 ELSE (end - start) \div step + 1) |->
        [from |-> start + (i - 1) * step, till |-> start + i * step - 1]]

\* "while current <= end": one range per turn of the loop
RECURSIVE RangesFrom(_, _, _)
RangesFrom(current, end, step) ==
    IF current > end THEN <<>>
    ELSE LET till == IF current + (step - 1) <= end THEN current + (step - 1) ELSE end
         IN <<[from |-> current, till |-> till]>> \o RangesFrom(till + 1, end, step)

get_date_ranges(start, end, step) == RangesFrom(start, end, step)

\* a call of get_date_ranges with step >= 1
RangesCall ==
    \E start \in 0 .. MaxRangeDay, end \in 0 .. MaxRangeDay, step \in 1 .. MaxStep :
      /\ util' = [fn |-> "get_date_ranges",
                  args |-> [start |-> start, end |-> end, step |-> step],
                  result |-> get_date_ranges(start, end, step)]
      /\ lastOp' = Op("get_date_ranges", "moex", "", NoRow, "")
      /\ UNCHANGED storeVars

NextRanges ==
    \/ RangesCall /\ UNCHANGED butUtil

SpecRanges == Init /\ [][NextRanges]_vars

\* C34: for start <= end and step >= 1, get_date_ranges(start, end, step)
\* returns ascending, pairwise disjoint ranges that cover [start, end] exactly
\* once, each spanning at most step days.
C34_RangesPartition ==
    (util.fn = "get_date_ranges" /\ util.args.start <= util.args.end) =>
       LET r == util.result
       IN /\ Len(r) >= 1
          /\ r[1].from = util.args.start
          /\ r[Len(r)].till = util.args.end
          /\ \A i \in 1 .. Len(r) : /\ r[i].from <= r[i].till
                                    /\ r[i].till - r[i].from + 1 <= util.args.step
          /\ \A i \in 1 .. Len(r) - 1 : r[i + 1].from = r[i].till + 1
          /\ \A d \in util.args.start .. util.args.end :
                Cardinality({i \in 1 .. Len(r) : r[i].from <= d /\ d <= r[i].till}) = 1

\* the call of the test: days 1 to 10 in steps of 3 give 1-3, 4-6, 7-9, 10-10
C34_Witness ==
    /\ util.fn = "get_date_ranges"
    /\ util.args = [start |-> 1, end |-> 10, step |-> 3]
    /\ util.result = <<[from |-> 1, till |-> 3], [from |-> 4, till |-> 6],
                       [from |-> 7, till |-> 9], [from |-> 10, till |-> 10]>>

----------------------------------------------------------------------------
(* resolve_start_date(base_start, args, last_date_raw) *)

START_DATE == 0                  \* dt.date(2022, 1, 1), day 0 of the model

\* the texts handed in as --since and as the last stored date: None, "", a
\* date as YYYY-MM-DD, a date as DD.MM.YYYY, anything else
NoneText == [form |-> "None", day |-> 0]
StartTexts ==
    {NoneText, [form |-> "empty", day |-> 0], [form |-> "garbage", day |-> 0]}
    \cup [form : {"%Y-%m-%d", "%d.%m.%Y"}, day : {20, 30}]

\* args.days: None, a whole number, a text that is not a number
NoneDays == [kind |-> "None", n |-> 0]
DaysArgs == {NoneDays, [kind |-> "text", n |-> 0]} \cup [kind : {"int"}, n : {-1, 0, 1, 5}]

EffectiveEnds == {40, 41}
ValueError == -1

\* dt.datetime.strptime(text, fmt).date(): the day, or ValueError
strptime(text, fmt) == IF text.form = fmt THEN text.day ELSE ValueError

\* a text is true in Python unless None or empty
Truthy(text) == text.form \notin {"None", "empty"}

resolve_start_date_DaysFirst(base_start, args, last_date_raw) ==
    IF args.days.kind = "int" /\ args.days.n > 0
    THEN args._effective_end_date - (args.days.n - 1)
    ELSE IF Truthy(args.since) /\ strptime(args.since, "%Y-%m-%d") # ValueError
    THEN strptime(args.since, "%Y-%m-%d")
    ELSE base_start

resolve_start_date(base_start, args, last_date_raw) ==
    IF Truthy(args.since) /\ strptime(args.since, "%Y-%m-%d") # ValueError
    THEN strptime(args.since, "%Y-%m-%d")
    ELSE IF args.days # NoneDays /\ args.days.kind = "int" /\ args.days.n > 0
    THEN args._effective_end_date - (args.days.n - 1)
    ELSE IF Truthy(last_date_raw) /\ strptime(last_date_raw, "%Y-%m-%d") # ValueError
    THEN strptime(last_date_raw, "%Y-%m-%d") + 1
    ELSE IF Truthy(last_date_raw) /\ strptime(last_date_raw, "%d.%m.%Y") # ValueError
    THEN strptime(last_date_raw, "%d.%m.%Y") + 1
    ELSE base_start

StartDateCall ==
    \E since \in StartTexts, days \in DaysArgs, end \in EffectiveEnds, last_date_raw \in StartTexts :
      LET args == [since |-> since, days |-> days, _effective_end_date |-> end]
      IN /\ util' = [fn |-> "resolve_start_date",
                     args |-> [args |-> args, last_date_raw |-> last_date_raw],
                     result |-> resolve_start_date(START_DATE, args, last_date_raw)]
         /\ lastOp' = Op("resolve_start_date", "moex", "", NoRow, "")
         /\ UNCHANGED storeVars

NextStartDate ==
    \/ StartDateCall /\ UNCHANGED butUtil

SpecStartDate == Init /\ [][NextStartDate]_vars

\* what the call was given
SinceIsValid == util.args.args.since.form = "%Y-%m-%d"
DaysIsPositive == util.args.args.days.kind = "int" /\ util.args.args.days.n >= 1
LastDateParses == util.args.last_date_raw.form \in {"%Y-%m-%d", "%d.%m.%Y"}

\* C35: resolve_start_date follows a strict precedence: a valid explicit since
\* date; else, with days = N > 0, the effective end date minus (N - 1) days;
\* else the day after the last stored date when it parses; else the base start.
C35_StrictPrecedence ==
    util.fn = "resolve_start_date" =>
       IF SinceIsValid THEN util.result = util.args.args.since.day
       ELSE IF DaysIsPositive
       THEN util.result = util.args.args._effective_end_date - (util.args.args.days.n - 1)
       ELSE IF LastDateParses THEN util.result = util.args.last_date_raw.day + 1
       ELSE util.result = START_DATE

\* the first call of the tests: since, days and a last date all given, the
\* since date wins
C35_Witness ==
    /\ util.fn = "resolve_start_date"
    /\ SinceIsValid /\ DaysIsPositive /\ LastDateParses
    /\ util.args.args.days.n = 5
    /\ util.result = util.args.args.since.day
    /\ util.result # util.args.args._effective_end_date - 4
    /\ util.result # util.args.last_date_raw.day + 1

----------------------------------------------------------------------------
(* moex.RateLimiter: a token bucket shared by the tasks of one event loop.
   Tokens are counted in parts of 1 / TokenUnits of a token and the loop's
   clock in ticks of the time the rate takes to refill one part, so that the
   rate is one part per tick and one token takes TokenUnits ticks. *)

TokenUnits == 2          \* parts of a token
Capacities == {1, 2}     \* capacity, in tokens: burst, or max(1, int(rate))

acquire_NoCap(l) ==
    LET elapsed == l.time - l.updated
        tokens == IF elapsed > 0 THEN l.tokens + elapsed ELSE l.tokens
    IN IF tokens >= TokenUnits
       THEN [tokens |-> tokens - TokenUnits, updated |-> l.time, ok |-> TRUE, wait_time |-> 0]
       ELSE [tokens |-> tokens, updated |-> l.time, ok |-> FALSE, wait_time |-> TokenUnits - tokens]

\* RateLimiter.acquire, the section under the lock: the refill, then a token
\* taken or the time to wait for the missing part
acquire(l) ==
    LET elapsed == l.time - l.updated
        refilled == IF l.capacity * TokenUnits <= l.tokens + elapsed
                    THEN l.capacity * TokenUnits ELSE l.tokens + elapsed
        tokens == IF elapsed > 0 THEN refilled ELSE l.tokens
        updated == IF elapsed > 0 THEN l.time ELSE l.updated
    IN IF tokens >= TokenUnits
       THEN [tokens |-> tokens - TokenUnits, updated |-> updated, ok |-> TRUE, wait_time |-> 0]
       ELSE [tokens |-> tokens, updated |-> updated, ok |-> FALSE,
             wait_time |-> TokenUnits - tokens]

\* RateLimiter(rate, burst): the bucket starts full
LimiterNew ==
    \E capacity \in Capacities :
      /\ limiter.capacity = 0
      /\ limiter' = [limiter EXCEPT !.capacity = capacity, !.tokens = capacity * TokenUnits,
                                    !.updated = limiter.time]
      /\ lastOp' = Op("RateLimiter", "moex", "", [capacity |-> capacity], "")
      /\ UNCHANGED storeVars

\* the loop's clock
LimiterTick ==
    /\ limiter.capacity > 0
    /\ limiter.time < MaxLimiterTime
    /\ limiter' = [limiter EXCEPT !.time = @ + 1]
    /\ lastOp' = Op("LimiterTick", "moex", "", NoRow, "")
    /\ UNCHANGED storeVars

\* task t runs the section under the lock, on its call of acquire or when its
\* sleep is over (asyncio.sleep returns no earlier than asked)
LimiterAcquire(t) ==
    LET a == acquire(limiter)
        task == limiter.tasks[t]
    IN /\ limiter.capacity > 0
       /\ task.stage = "idle" \/ (task.stage = "sleeping" /\ task.wake_at <= limiter.time)
       /\ limiter' = [limiter EXCEPT
                        !.tokens = a.tokens,
                        !.updated = a.updated,
                        !.tasks[t] = IF a.ok THEN [stage |-> "idle", wake_at |-> 0]
                                     ELSE [stage |-> "sleeping",
                                           wake_at |-> limiter.time + a.wait_time],
                        !.acquired[limiter.time] = IF a.ok THEN @ + 1 ELSE @]
       /\ lastOp' = Op("acquire", "moex", t,
                       [called |-> task.stage = "idle", wait_time |-> a.wait_time],
                       IF a.ok THEN "acquired" ELSE "sleep")
       /\ UNCHANGED storeVars

NextLimiter ==
    \/ LimiterNew /\ UNCHANGED butLimiter
    \/ LimiterTick /\ UNCHANGED butLimiter
    \/ \E t \in Tasks : LimiterAcquire(t) /\ UNCHANGED butLimiter

SpecLimiter == Init /\ [][NextLimiter]_vars

\* the acquisitions completed at the times from t0 to t1
RECURSIVE AcquiredIn(_, _)
AcquiredIn(t0, t1) ==
    IF t0 > t1 THEN 0 ELSE limiter.acquired[t0] + AcquiredIn(t0 + 1, t1)

\* C36: a RateLimiter of rate r whose bucket of capacity c starts full lets the
\* first c acquisitions complete without waiting, makes further ones wait for
\* the refill (at most the time of one token, 1/r), and never lets more than
\* c + r * T acquisitions complete in an interval of length T, also when
\* several tasks acquire concurrently.
C36_TokenBucket ==
    [][/\ \* the first c acquisitions do not wait
          (lastOp'.op = "acquire" /\ AcquiredIn(0, MaxLimiterTime) < limiter.capacity)
             => lastOp'.status = "acquired"
       /\ \* a call that finds less than one token sleeps for the missing part
          (lastOp'.op = "acquire" /\ lastOp'.status = "sleep")
             => /\ lastOp'.arg.wait_time >= 1
                /\ lastOp'.arg.wait_time <= TokenUnits
                /\ limiter'.acquired = limiter.acquired
       /\ \* in every interval of length T at most c + r * T acquisitions complete
          \A t0 \in 0 .. MaxLimiterTime : \A t1 \in t0 .. MaxLimiterTime :
             TokenUnits * AcquiredIn(t0, t1)' <= TokenUnits * limiter'.capacity + (t1 - t0)]_vars

\* two tasks have emptied a bucket of two tokens at time 0, one of them then
\* slept for a whole token and acquired it
C36_Witness ==
    /\ limiter.capacity = 2
    /\ limiter.acquired[0] = 2
    /\ limiter.acquired[1] = 0
    /\ limiter.acquired[2] = 1
    /\ lastOp.op = "acquire"
    /\ lastOp.status = "acquired"
    /\ ~lastOp.arg.called

----------------------------------------------------------------------------
(* consensus_scheduler: main, run_iteration and the signal handler *)

SchedModes == {"update", "ensure", "both"}

\* run_iteration: the first call it makes in the mode given
FirstStep(mode) == IF mode \in {"ensure", "both"} THEN "ensure" ELSE "update"

\* main up to the first run_iteration: handlers installed, iteration = 1
SchedMain ==
    \E mode \in SchedModes, once \in BOOLEAN :
      /\ sched.stage = "idle"
      /\ sched' = [sched EXCEPT !.stage = "run_iteration", !.mode = mode, !.once = once,
                                !.iteration = 1, !.step = FirstStep(mode)]
      /\ lastOp' = Op("main", "consensus_scheduler", "", [mode |-> mode, once |-> once], "")
      /\ UNCHANGED storeVars

\* run_iteration: EnsureForecastsForMissingShares, then UpdateConsensusForecasts,
\* as the mode says; an exception of either ends the iteration and is logged
SchedStep ==
    \E outcome \in {"returns", "raises"} :
      /\ sched.stage = "run_iteration"
      /\ sched' = IF outcome = "returns" /\ sched.step = "ensure" /\ sched.mode = "both"
                  THEN [sched EXCEPT !.step = "update"]
                  ELSE [sched EXCEPT !.stage = "iteration_done", !.step = "none"]
      /\ lastOp' = Op("run_iteration", "consensus_scheduler", "", [step |-> sched.step], outcome)
      /\ UNCHANGED storeVars

\* "if args.once or stop_flag: break", else on to the pause
SchedCheck ==
    /\ sched.stage = "iteration_done"
    /\ sched' = [sched EXCEPT !.stage = IF sched.once \/ sched.stop_flag THEN "exited"
                                        ELSE "sleeping"]
    /\ lastOp' = Op("check", "consensus_scheduler", "", NoRow, "")
    /\ UNCHANGED storeVars

\* time.sleep(sleep_left) is over, or there was nothing left to sleep: back
\* to the top of "while True", iteration += 1, run_iteration
SchedWake ==
    /\ sched.stage = "sleeping"
    /\ sched.iteration < MaxIterations
    /\ sched' = [sched EXCEPT !.stage = "run_iteration", !.iteration = @ + 1,
                              !.step = FirstStep(sched.mode)]
    /\ lastOp' = Op("wake", "consensus_scheduler", "", NoRow, "")
    /\ UNCHANGED storeVars

\* _handle_signal: SIGINT or SIGTERM is delivered while main runs; the handler
\* sets stop_flag and returns, and what it interrupted goes on
SchedSignal ==
    \E signum \in {"SIGINT", "SIGTERM"} :
      /\ sched.stage \in {"run_iteration", "iteration_done", "sleeping"}
      /\ sched' = [sched EXCEPT !.stop_flag = TRUE,
                                !.signalled = IF sched.stop_flag THEN @
                                              ELSE [iteration |-> sched.iteration,
                                                    stage |-> sched.stage]]
      /\ lastOp' = Op("_handle_signal", "consensus_scheduler", "", [signum |-> signum], "")
      /\ UNCHANGED storeVars

NextScheduler ==
    \/ SchedMain /\ UNCHANGED butSched
    \/ SchedStep /\ UNCHANGED butSched
    \/ SchedCheck /\ UNCHANGED butSched
    \/ SchedWake /\ UNCHANGED butSched
    \/ SchedSignal /\ UNCHANGED butSched

SpecScheduler == Init /\ [][NextScheduler]_vars

\* C40 (as stated): once a stop signal has been received the consensus
\* scheduler starts no new iteration; it leaves its loop as soon as the
\* iteration in progress, if any, has finished.
C40_Original ==
    [][sched.stop_flag => sched'.iteration = sched.iteration]_vars

\* supplementary: a signal that comes during an iteration, or before the check
\* that follows it, ends the loop after that iteration; one that comes during
\* the pause is looked at only after one more iteration
C40_AtMostOneMoreIteration ==
    sched.stop_flag =>
       /\ sched.iteration <= sched.signalled.iteration + 1
       /\ sched.signalled.stage \in {"run_iteration", "iteration_done"}
             => sched.iteration = sched.signalled.iteration
       /\ sched.stage # "sleeping" \/ sched.signalled.stage = "sleeping"

\* supplementary: the signal came during the pause after iteration 1 and
\* iteration 2 is running
C40_NewIterationAfterSignal ==
    /\ sched.stop_flag
    /\ sched.signalled = [iteration |-> 1, stage |-> "sleeping"]
    /\ sched.stage = "run_iteration"
    /\ sched.iteration = 2

====
